---- MODULE Spec2Model ----
(***************************************************************************)
(* Atlas 3+3 project repository: the submission / review / publish         *)
(* workflow of src/src/database.py (AtlasDB, SQLite), its adapter in       *)
(* src/src/database_interface.py (AtlasDBAdapter) and the PostgreSQL       *)
(* backend of src/src/database_postgres.py (AtlasPostgreSQLDB), together   *)
(* with the form and review handlers of src/pages that call them.          *)
(*                                                                         *)
(* One database is modelled; `backend` says which implementation owns it.  *)
(* Every data-access method is an operator from (database, arguments) to   *)
(* an outcome [err, db, ...]: err is the exception the method raises       *)
(* ("none" when it returns normally) and db the committed database.        *)
(* `sessions` holds the calls in progress on the connections (SQLite) or   *)
(* sessions (PostgreSQL) that run a method statement by statement: the     *)
(* position of each in its method and the values it has read so far.       *)
(***************************************************************************)
EXTENDS Integers, Sequences, FiniteSets, TLC

VARIABLES backend, now, db, result, sessions

vars == <<backend, now, db, result, sessions>>

(***************************************************************************)
(* Bounds of the model.                                                    *)
(***************************************************************************)
MaxCreates == 1
MaxHistory == 2
MaxClock == 2
MaxLoads == 1

(***************************************************************************)
(* Python None / SQL NULL.                                                 *)
(***************************************************************************)
None == -1000
NoneStr == "None"

(***************************************************************************)
(* Program constants.                                                      *)
(***************************************************************************)
WORKFLOW_STATUSES == {"submitted", "in_review", "approved", "rejected", "changes_requested"}
REVIEW_STATUSES == {"approved", "rejected", "changes_requested"}
PENDING_STATUSES == {"submitted", "in_review", "changes_requested"}
LAT_MIN == -90
LAT_MAX == 90
LON_MIN == -180
LON_MAX == 180
MIN_FUNDING_AMOUNT == 0
MAX_FUNDING_AMOUNT == 999999999
MAX_BRIEF_DESCRIPTION_LENGTH == 255
SdgCatalog == 1..17
RegionCatalog == 1..5
SampleCount == 5
LoadedCount == 2
AdminUserId == 1
AdminEmail == "admin@atlas33.org"

SampleSdgs(i) ==
    CASE i = 1 -> {11, 13, 15}
      [] i = 2 -> {3, 9, 10}
      [] i = 3 -> {6, 11, 13}
      [] i = 4 -> {4, 9, 10}
      [] OTHER -> {7, 11, 13}

SampleCity(i) ==
    CASE i = 1 -> "Amsterdam"
      [] i = 2 -> "Sao Paulo"
      [] i = 3 -> "Cape Town"
      [] i = 4 -> "Sydney"
      [] OTHER -> "Istanbul"

SampleRegion(i) ==
    CASE i = 1 -> 1
      [] i = 2 -> 3
      [] i = 3 -> 5
      [] i = 4 -> 4
      [] OTHER -> 2

SampleOrganization(i) ==
    CASE i = 1 -> "Amsterdam Urban Planning Department"
      [] i = 2 -> "Sao Paulo Health Innovation Center"
      [] i = 3 -> "Cape Town Water Department"
      [] i = 4 -> "Sydney Educational Technology Institute"
      [] OTHER -> "Istanbul Energy Cooperative"

(***************************************************************************)
(* Sequence helpers.                                                       *)
(***************************************************************************)
Range(s) == {s[i] : i \in 1..Len(s)}

RECURSIVE SeqOfSet(_)
SeqOfSet(S) ==
    IF S = {} THEN <<>>
    ELSE LET m == CHOOSE x \in S : \A y \in S : x <= y
         IN <<m>> \o SeqOfSet(S \ {m})

(***************************************************************************)
(* A row of the projects table.  Columns that exist in only one schema     *)
(* stay NULL in the other; a NULL geolocation is the empty tuple.  SQLite   *)
(* stores created_at as text: created_at_iso tells the text was written by *)
(* datetime.now().isoformat() ("2025-01-01T10:00:00") and not by           *)
(* CURRENT_TIMESTAMP ("2025-01-01 10:00:00"), and likewise updated_at_iso.  *)
(* updated_at is the SQLite column, which the migration reads; the         *)
(* PostgreSQL column of that name is read by no operation and is left out. *)
(***************************************************************************)
ProjectRow(id, name, email, city, lat, lon, funding, brieflen, status, ref, slug, t, by) ==
    [id |-> id, project_name |-> name, contact_email |-> email, city |-> city,
     latitude |-> lat, longitude |-> lon, funding_needed_usd |-> funding,
     brief_len |-> brieflen, workflow_status |-> status,
     reference_id |-> ref, project_slug |-> slug,
     created_at |-> t, submission_date |-> t,
     approval_date |-> None, published_date |-> None, deleted_at |-> None,
     rejection_reason |-> NoneStr,
     submitted_by |-> by, last_reviewed_by |-> None,
     uia_region_id |-> None, organization_name |-> NoneStr,
     geolocation |-> <<>>, created_at_iso |-> FALSE,
     updated_at |-> t, updated_at_iso |-> FALSE]

SampleRow(i) ==
    [ProjectRow(i, "Sample", "sample@city.org", SampleCity(i), 45, 10, 1000, 100,
                "approved", i, NoneStr, 1, AdminUserId)
       EXCEPT !.uia_region_id = SampleRegion(i),
              !.organization_name = SampleOrganization(i)]

(***************************************************************************)
(* What the PostgreSQL server decides and the code does not: whether the   *)
(* geolocation trigger of models_postgres.TRIGGERS has been installed (no  *)
(* code of the repository executes it), whether ST_Within accepts two      *)
(* geography arguments, and the order in which a query without ORDER BY    *)
(* scans the projects.  uuid4 is what uuid.uuid4() draws for the project   *)
(* identifiers: identifiers that differ in their first six hexadecimal     *)
(* digits ("distinct") or that share them ("shared").                      *)
(***************************************************************************)
ScanOrders == {"ascending", "descending"}

Server(trigger, st_within, scan) ==
    [trigger_update_geolocation |-> trigger, st_within_geography |-> st_within,
     scan |-> scan]

CodeOnlyServer == Server(FALSE, FALSE, "ascending")

EmptyDb ==
    [users |-> {}, projects |-> <<>>, project_sdgs |-> {},
     project_typologies |-> <<>>, project_requirements |-> <<>>,
     project_images |-> <<>>, history |-> <<>>, reviews |-> <<>>,
     sdgs |-> <<>>, uia_regions |-> <<>>, typologies |-> <<>>, requirements |-> <<>>,
     seq_projects |-> 0, seq_users |-> 0,
     server |-> CodeOnlyServer, uuid4 |-> "distinct"]

(***************************************************************************)
(* Reference catalogs.  A catalog row is its natural key (the id, the SDG  *)
(* number or the code), its name and, for PostgreSQL regions, its code.    *)
(* SDG names are abbreviated to the number, except the one name the two    *)
(* SQLite lists spell differently.                                         *)
(***************************************************************************)
CatalogRow(key, name, code) == [key |-> key, name |-> name, code |-> code]

Keys(tab) == {tab[i].key : i \in 1..Len(tab)}

UIA_REGIONS(i) ==
    CASE i = 1 -> "Section I - Western Europe"
      [] i = 2 -> "Section II - Middle East and Eastern Europe"
      [] i = 3 -> "Section III - Americas"
      [] i = 4 -> "Section IV - Oceania"
      [] OTHER -> "Section V - Africa"

region_code(i) ==
    CASE i = 1 -> "SECTION_I"
      [] i = 2 -> "SECTION_II"
      [] i = 3 -> "SECTION_III"
      [] i = 4 -> "SECTION_IV"
      [] OTHER -> "SECTION_V"

SdgName(i) == IF i = 3 THEN "Good Health and Well-being" ELSE ToString(i)

regions_data == [i \in RegionCatalog |-> CatalogRow(i, UIA_REGIONS(i), region_code(i))]

sdgs_data == [i \in SdgCatalog |-> CatalogRow(i, SdgName(i), NoneStr)]

TYPOLOGY_CODES ==
    <<CatalogRow("RESIDENTIAL", "Residential", NoneStr),
      CatalogRow("INFRASTRUCTURE_UTILITIES", "Infrastructure & Utilities", NoneStr),
      CatalogRow("OTHER", "Other", NoneStr)>>

PROJECT_REQUIREMENTS ==
    <<CatalogRow("FUNDING_PHILANTHROPIC", "Philanthropic Support", NoneStr),
      CatalogRow("GOV_FAVORABLE_POLICIES", "Favorable Policies or Regulations", NoneStr),
      CatalogRow("OTHER_CUSTOM", "Other", NoneStr)>>

(***************************************************************************)
(* AtlasDB.populate_reference_data: INSERT OR IGNORE of every listed row;  *)
(* a row is ignored when it conflicts with a stored one on the primary key *)
(* or on a UNIQUE column (the region name).                                *)
(***************************************************************************)
(* Fault model: every listed row is inserted, conflicts are not looked for. *)
InsertRegardless(tab, rows, unique_name) == tab \o rows

RECURSIVE InsertOrIgnore(_, _, _)
InsertOrIgnore(tab, rows, unique_name) ==
    IF rows = <<>> THEN tab
    ELSE LET r == Head(rows)
             conflict == \E i \in 1..Len(tab) :
                            \/ tab[i].key = r.key
                            \/ unique_name /\ tab[i].name = r.name
         IN InsertOrIgnore(IF conflict THEN tab ELSE Append(tab, r), Tail(rows), unique_name)

populate_reference_data(d) ==
    [d EXCEPT !.uia_regions = InsertOrIgnore(@, [i \in RegionCatalog |->
                                  CatalogRow(i, UIA_REGIONS(i), NoneStr)], TRUE),
              !.sdgs = InsertOrIgnore(@, sdgs_data, FALSE)]

(***************************************************************************)
(* AtlasDB.__init__: init_db, populate_reference_data and, the projects    *)
(* table being empty, seed_sample_data.                                    *)
(***************************************************************************)
seed_sample_data(d) ==
    [d EXCEPT
       !.users = {[id |-> AdminUserId, email |-> AdminEmail, contact_person |-> "Admin User"]},
       !.seq_users = AdminUserId,
       !.projects = [i \in 1..SampleCount |-> SampleRow(i)],
       !.seq_projects = SampleCount,
       !.project_sdgs = {<<i, s>> : i \in 1..SampleCount, s \in SdgCatalog} \cap
                        {p \in (1..SampleCount) \X SdgCatalog : p[2] \in SampleSdgs(p[1])},
       !.project_typologies = [i \in 1..SampleCount |-> [project_id |-> i, typology |-> "Infrastructure & Utilities"]],
       !.project_images = [i \in 1..SampleCount |-> [project_id |-> i, image_url |-> "img", display_order |-> 0]]]

SqliteInitDb == seed_sample_data(populate_reference_data(EmptyDb))

(***************************************************************************)
(* The PostgreSQL database in service: its reference tables hold the       *)
(* catalog and no project has been submitted.                              *)
(***************************************************************************)
PostgresInitDb ==
    [EmptyDb EXCEPT !.uia_regions = regions_data, !.sdgs = sdgs_data,
                    !.typologies = TYPOLOGY_CODES, !.requirements = PROJECT_REQUIREMENTS]

(***************************************************************************)
(* The last call and what it returned to its caller: err is the exception  *)
(* raised ("none": normal return), ret the returned value, errors the      *)
(* messages a page handler displayed.                                      *)
(***************************************************************************)
NoResult ==
    [op |-> "init", err |-> "none", pid |-> None, old |-> NoneStr,
     new_status |-> NoneStr, reason |-> NoneStr, reviewer |-> None, ret |-> None,
     form |-> <<>>, errors |-> <<>>]

(* No call is in progress on either connection.                            *)
Connections == {"a", "b"}

Idle == [pc |-> "idle"]

NoSessions == [c \in Connections |-> Idle]

Init ==
    /\ backend \in {"sqlite", "postgres"}
    /\ now = 1
    /\ db = IF backend = "sqlite" THEN SqliteInitDb ELSE PostgresInitDb
    /\ result = NoResult
    /\ sessions = NoSessions

(***************************************************************************)
(* The wall clock advances between calls.                                  *)
(***************************************************************************)
Tick ==
    /\ now < MaxClock
    /\ now' = now + 1
    /\ result' = [NoResult EXCEPT !.op = "tick"]
    /\ UNCHANGED <<backend, db, sessions>>

(***************************************************************************)
(* Identifiers arrive as text at the adapter and at the PostgreSQL         *)
(* backend: int(project_id) and uuid.UUID(project_id).  Both raise         *)
(* ValueError on text that does not denote an identifier.                  *)
(***************************************************************************)
MaxId == SampleCount + MaxCreates + MaxLoads * LoadedCount + 1

(* The decimal text of every id, computed once.                            *)
IdTexts == [n \in 1..MaxId |-> ToString(n)]

ParseId(s) ==
    IF \E n \in 1..MaxId : IdTexts[n] = s
    THEN CHOOSE n \in 1..MaxId : IdTexts[n] = s
    ELSE None

Truthy(x) == x # None /\ x # 0

TruthyStr(x) == x # NoneStr /\ x # ""

HistoryEntry(pid, old, new, by, reason) ==
    [project_id |-> pid, old_status |-> old, new_status |-> new,
     changed_by |-> by, reason |-> reason]

ReviewEntry(pid, by, status, notes) ==
    [project_id |-> pid, reviewer_id |-> by, review_status |-> status, notes |-> notes]

Outcome(err, d) == [err |-> err, db |-> d]

(***************************************************************************)
(* A transaction that raised before commit leaves the database as it was:  *)
(* sqlite3 discards the uncommitted writes of the abandoned connection and *)
(* the PostgreSQL methods call session.rollback().                         *)
(***************************************************************************)
(* Fault model: a rollback that keeps the writes made so far.               *)
RollbackKeepsWrites(pre, tx) == tx

Rollback(pre, tx) == pre

(***************************************************************************)
(* AtlasPostgreSQLDB._populate_reference_data: every listed row is added   *)
(* unless a row with its key is stored; the commit refuses a region code   *)
(* longer than the column (String(10)) and the whole seeding is rolled     *)
(* back and re-raised.                                                     *)
(***************************************************************************)
REGION_CODE_LENGTH == 10

RECURSIVE AddIfAbsent(_, _)
AddIfAbsent(tab, rows) ==
    IF rows = <<>> THEN tab
    ELSE AddIfAbsent(IF Head(rows).key \in Keys(tab) THEN tab ELSE Append(tab, Head(rows)),
                     Tail(rows))

AtlasPostgreSQLDB_populate_reference_data(d) ==
    LET tx == [d EXCEPT !.uia_regions = AddIfAbsent(@, regions_data),
                        !.sdgs = AddIfAbsent(@, sdgs_data),
                        !.typologies = AddIfAbsent(@, TYPOLOGY_CODES),
                        !.requirements = AddIfAbsent(@, PROJECT_REQUIREMENTS)]
        added == {tx.uia_regions[i] : i \in (Len(d.uia_regions) + 1)..Len(tx.uia_regions)}
    IN IF \E r \in added : Len(r.code) > REGION_CODE_LENGTH
       THEN Outcome("DataError", Rollback(d, tx))
       ELSE Outcome("none", tx)

(***************************************************************************)
(* AtlasDB.update_project_status (SQLite).  The method first reads the     *)
(* current status (a SELECT, outside any transaction), then writes: the    *)
(* UPDATE opens the transaction that the history and review inserts join   *)
(* and conn.commit() ends.  update_writes is the second part, given the    *)
(* status the first part read.                                             *)
(***************************************************************************)
AtlasDB_update_writes(d, project_id, old_status, new_status, reason, reviewer_id) ==
      LET tx1 == [d EXCEPT !.projects[project_id].workflow_status = new_status,
                           !.projects[project_id].updated_at = now,
                           !.projects[project_id].updated_at_iso = FALSE]
          tx2 == [tx1 EXCEPT !.history = Append(@,
                     HistoryEntry(project_id, old_status, new_status, reviewer_id, reason))]
          tx3 == [tx2 EXCEPT !.reviews = Append(@,
                     ReviewEntry(project_id, reviewer_id, new_status, reason))]
      IN IF new_status \notin WORKFLOW_STATUSES
         THEN Outcome("IntegrityError", Rollback(d, d))
         ELSE IF ~Truthy(reviewer_id)
         THEN Outcome("none", tx2)
         ELSE IF new_status \notin REVIEW_STATUSES
         THEN Outcome("IntegrityError", Rollback(d, tx2))
         ELSE Outcome("none", tx3)

AtlasDB_update_project_status(d, project_id, new_status, reason, reviewer_id) ==
    IF project_id \notin DOMAIN d.projects
    THEN Outcome("TypeError", d)
    ELSE AtlasDB_update_writes(d, project_id, d.projects[project_id].workflow_status,
                               new_status, reason, reviewer_id)

(***************************************************************************)
(* AtlasDBAdapter.update_project_status: converts the identifiers and      *)
(* delegates; ValueError and TypeError are logged, not raised.             *)
(***************************************************************************)
AtlasDBAdapter_update_project_status(d, project_id, new_status, reason, reviewer_id) ==
    LET int_id == ParseId(project_id)
        int_reviewer_id == IF TruthyStr(reviewer_id) THEN ParseId(reviewer_id) ELSE None
        inner == AtlasDB_update_project_status(d, int_id, new_status, reason, int_reviewer_id)
    IN IF int_id = None \/ (TruthyStr(reviewer_id) /\ int_reviewer_id = None)
       THEN Outcome("none", d)
       ELSE IF inner.err \in {"ValueError", "TypeError"}
       THEN Outcome("none", inner.db)
       ELSE inner

(***************************************************************************)
(* AtlasPostgreSQLDB.update_project_status.  The constraints of            *)
(* models_postgres.py are checked when the session flushes at commit.      *)
(***************************************************************************)
UserIds(d) == {u.id : u \in d.users}

(* Fault model: a projects table without the date constraint.              *)
NoWorkflowDateCheck(row) == TRUE

(* CHECK valid_workflow_dates of the projects table (a comparison with     *)
(* NULL does not fail a CHECK).                                            *)
valid_workflow_dates(row) ==
    /\ row.approval_date = None \/ row.submission_date = None
          \/ row.approval_date >= row.submission_date
    /\ row.published_date = None \/ row.approval_date = None
          \/ row.published_date >= row.approval_date

(* The session loads the project (query ... first()), and the attribute    *)
(* changes and the added history and review objects are sent to the server *)
(* by session.commit(): update_flush is that second part, given the status *)
(* the loaded object carried.                                              *)
AtlasPostgreSQLDB_update_flush(d, project_uuid, old_status, new_status, reason, reviewer_uuid) ==
         LET tx1 == [d EXCEPT !.projects[project_uuid].workflow_status = new_status]
             tx2 == IF new_status = "approved"
                    THEN [tx1 EXCEPT !.projects[project_uuid].approval_date = now,
                                     !.projects[project_uuid].published_date = now]
                    ELSE IF new_status = "rejected"
                    THEN [tx1 EXCEPT !.projects[project_uuid].rejection_reason = reason]
                    ELSE tx1
             tx3 == IF reviewer_uuid # None
                    THEN [tx2 EXCEPT !.projects[project_uuid].last_reviewed_by = reviewer_uuid]
                    ELSE tx2
             tx4 == [tx3 EXCEPT !.history = Append(@,
                        HistoryEntry(project_uuid, old_status, new_status, reviewer_uuid, reason))]
             tx5 == IF reviewer_uuid # None
                    THEN [tx4 EXCEPT !.reviews = Append(@,
                            ReviewEntry(project_uuid, reviewer_uuid, new_status,
                                        IF TruthyStr(reason) THEN reason ELSE "Status changed"))]
                    ELSE tx4
             row == tx5.projects[project_uuid]
         IN IF new_status \notin WORKFLOW_STATUSES
            THEN Outcome("DataError", Rollback(d, tx5))
            ELSE IF \/ reviewer_uuid = None
                    \/ reviewer_uuid \notin UserIds(d)
                    \/ old_status = new_status
                    \/ new_status \notin REVIEW_STATUSES
                    \/ ~valid_workflow_dates(row)
            THEN Outcome("IntegrityError", Rollback(d, tx5))
            ELSE Outcome("none", tx5)

AtlasPostgreSQLDB_update_project_status(d, project_id, new_status, reason, reviewer_id) ==
    LET project_uuid == ParseId(project_id)
        reviewer_uuid == IF TruthyStr(reviewer_id) THEN ParseId(reviewer_id) ELSE None
    IN IF project_uuid = None \/ (TruthyStr(reviewer_id) /\ reviewer_uuid = None)
       THEN Outcome("ValueError", d)
       ELSE IF project_uuid \notin DOMAIN d.projects
       THEN Outcome("ValueError", d)
       ELSE AtlasPostgreSQLDB_update_flush(d, project_uuid,
                                           d.projects[project_uuid].workflow_status,
                                           new_status, reason, reviewer_uuid)

(***************************************************************************)
(* Submission drafts (form_data).  Text is kept by its length where only   *)
(* the length is inspected.                                                *)
(***************************************************************************)
GoodEmail == "ana@org.org"
BadEmail == "ana-at-org"

EMAIL_REGEX_match(email) ==
    email \in {GoodEmail, AdminEmail, "sample@city.org", "ben@org.org",
               "pmartinez@bcn.cat", "cycling@kk.dk"}

BaseDraft ==
    [project_name |-> "Green Roof", contact_email |-> GoodEmail,
     contact_person |-> "Ana", city |-> "Accra",
     uia_region_id |-> 5, organization_name |-> "Accra Water Works",
     latitude |-> 45, longitude |-> 10, funding_needed_usd |-> 100,
     brief_len |-> 100,
     sdgs |-> <<7, 11>>, typologies |-> <<"Residential">>,
     requirements |-> <<[category |-> "other", text |-> "Other"]>>,
     image_urls |-> <<"http://img/1">>]

strip(url) == IF url = " " THEN "" ELSE url

TYPOLOGY_CODES_get(name) ==
    CASE name = "Residential" -> "RESIDENTIAL"
      [] name = "Infrastructure & Utilities" -> "INFRASTRUCTURE_UTILITIES"
      [] OTHER -> "OTHER"

REQUIREMENT_CODES_get(text) ==
    CASE text = "Philanthropic Support" -> "FUNDING_PHILANTHROPIC"
      [] text = "Favorable Policies or Regulations" -> "GOV_FAVORABLE_POLICIES"
      [] OTHER -> "OTHER_CUSTOM"

REQUIREMENT_CATEGORY_ENUM == {"funding", "government_regulatory", "other"}

CreateOutcome(err, d, pid, ret) == [err |-> err, db |-> d, pid |-> pid, ret |-> ret]

(***************************************************************************)
(* Row-by-row inserts of one transaction.  Each returns [err, tab]: the    *)
(* table as written so far and the error that stopped it, if any.          *)
(***************************************************************************)
RECURSIVE InsertSdgs(_, _, _, _, _)
InsertSdgs(tab, pid, sdgs, catalog, foreign_keys) ==
    IF sdgs = <<>> THEN [err |-> "none", tab |-> tab]
    ELSE IF <<pid, Head(sdgs)>> \in tab \/ (foreign_keys /\ Head(sdgs) \notin catalog)
    THEN [err |-> "IntegrityError", tab |-> tab]
    ELSE InsertSdgs(tab \cup {<<pid, Head(sdgs)>>}, pid, Tail(sdgs), catalog, foreign_keys)

RECURSIVE InsertImages(_, _, _, _)
InsertImages(tab, pid, urls, i) ==
    IF urls = <<>> THEN tab
    ELSE IF strip(Head(urls)) # ""
    THEN InsertImages(Append(tab, [project_id |-> pid, image_url |-> strip(Head(urls)),
                                   display_order |-> i]), pid, Tail(urls), i + 1)
    ELSE InsertImages(tab, pid, Tail(urls), i + 1)

(***************************************************************************)
(* AtlasDB.create_project (SQLite).  Foreign keys are not enforced (no     *)
(* PRAGMA foreign_keys), so any sdg_id is accepted; the primary key of     *)
(* project_sdgs and the UNIQUE reference_id are.  The method first counts  *)
(* the projects (a SELECT, outside any transaction) and then writes in one *)
(* transaction; create_writes is the second part, given the count.  The    *)
(* reference_id "ATLAS-2025-" + str(count + 1).zfill(6) is kept by its     *)
(* number.                                                                 *)
(***************************************************************************)
AtlasDB_create_writes(d, form, count) ==
    LET ref_id == count + 1
        known == \E u \in d.users : u.email = form.contact_email
        tx1 == IF known THEN d
               ELSE [d EXCEPT !.users = @ \cup {[id |-> d.seq_users + 1,
                                                  email |-> form.contact_email,
                                                  contact_person |-> form.contact_person]},
                              !.seq_users = @ + 1]
        user_id == (CHOOSE u \in tx1.users : u.email = form.contact_email).id
        project_id == d.seq_projects + 1
        row == [ProjectRow(project_id, form.project_name, form.contact_email, form.city,
                           form.latitude, form.longitude, form.funding_needed_usd,
                           form.brief_len, "submitted", ref_id, NoneStr, now, user_id)
                  EXCEPT !.uia_region_id = form.uia_region_id,
                         !.organization_name = form.organization_name]
        tx2 == [tx1 EXCEPT !.projects = (project_id :> row) @@ @,
                           !.seq_projects = project_id]
        ins == InsertSdgs(tx2.project_sdgs, project_id, form.sdgs, Keys(d.sdgs), FALSE)
        tx3 == [tx2 EXCEPT !.project_sdgs = ins.tab]
        tx4 == [tx3 EXCEPT !.project_typologies = @ \o
                   [i \in 1..Len(form.typologies) |->
                       [project_id |-> project_id, typology |-> form.typologies[i]]]]
        tx5 == [tx4 EXCEPT !.project_requirements = @ \o
                   [i \in 1..Len(form.requirements) |->
                       [project_id |-> project_id,
                        requirement_category |-> form.requirements[i].category,
                        requirement_text |-> form.requirements[i].text]]]
        tx6 == [tx5 EXCEPT !.project_images =
                   InsertImages(@, project_id, form.image_urls, 0)]
    IN IF \E q \in DOMAIN d.projects : d.projects[q].reference_id = ref_id
       THEN CreateOutcome("IntegrityError", Rollback(d, tx1), None, None)
       ELSE IF ins.err # "none"
       THEN CreateOutcome(ins.err, Rollback(d, tx3), None, None)
       ELSE CreateOutcome("none", tx6, project_id, ref_id)

AtlasDB_create_project(d, form) ==
    AtlasDB_create_writes(d, form, Cardinality(DOMAIN d.projects))

(***************************************************************************)
(* AtlasPostgreSQLDB._generate_project_slug.                               *)
(***************************************************************************)
base_slug(project_name) ==
    CASE project_name = "Green Roof" -> "green-roof"
      [] project_name = "green roof!" -> "green-roof"
      [] project_name = "Green Roof 1" -> "green-roof-1"
      [] project_name = "Barcelona Superblocks" -> "barcelona-superblocks"
      [] project_name = "Copenhagen Cycle Superhighways" -> "copenhagen-cycle-superhighways"
      [] OTHER -> "sample"

RECURSIVE SlugLoop(_, _, _, _)
SlugLoop(d, base, slug, counter) ==
    IF \E q \in DOMAIN d.projects : d.projects[q].project_slug = slug
    THEN SlugLoop(d, base, base \o "-" \o ToString(counter), counter + 1)
    ELSE slug

generate_project_slug(d, project_name) ==
    SlugLoop(d, base_slug(project_name), base_slug(project_name), 1)

(***************************************************************************)
(* AtlasPostgreSQLDB.create_project.  NOT NULL, CHECK, UNIQUE, enum and    *)
(* foreign-key constraints are those of models_postgres.py.  The returned  *)
(* reference "ATLAS-<year>-" + str(project_id).replace('-', '')[:6] is     *)
(* kept by its last part, the first six digits of the identifier; it is    *)
(* stored nowhere.                                                         *)
(***************************************************************************)
uuid_head(d, project_id) ==
    IF d.uuid4 = "distinct" THEN IdTexts[project_id] ELSE "A1B2C3"

TypologyCodes(form) == [i \in 1..Len(form.typologies) |-> TYPOLOGY_CODES_get(form.typologies[i])]

RequirementCodes(form) == [i \in 1..Len(form.requirements) |-> REQUIREMENT_CODES_get(form.requirements[i].text)]

NoDuplicates(s) == \A i, j \in 1..Len(s) : s[i] = s[j] => i = j

AtlasPostgreSQLDB_create_project(d, form) ==
    LET known == \E u \in d.users : u.email = form.contact_email
        tx1 == IF known THEN d
               ELSE [d EXCEPT !.users = @ \cup {[id |-> d.seq_users + 1,
                                                  email |-> form.contact_email,
                                                  contact_person |-> form.contact_person]},
                              !.seq_users = @ + 1]
        user_id == (CHOOSE u \in tx1.users : u.email = form.contact_email).id
        slug == generate_project_slug(tx1, form.project_name)
        project_id == d.seq_projects + 1
        funding == IF form.funding_needed_usd = None THEN 0 ELSE form.funding_needed_usd
        row == [ProjectRow(project_id, form.project_name, form.contact_email, form.city,
                           form.latitude, form.longitude, funding,
                           form.brief_len, "submitted", None, slug, now, user_id)
                  EXCEPT !.uia_region_id = form.uia_region_id,
                         !.organization_name = form.organization_name,
                         !.updated_at = None,
                         !.geolocation = IF d.server.trigger_update_geolocation
                                         THEN <<form.latitude, form.longitude>>
                                         ELSE <<>>]
        tx2 == [tx1 EXCEPT !.projects = (project_id :> row) @@ @,
                           !.seq_projects = project_id]
        ins == InsertSdgs(tx2.project_sdgs, project_id, form.sdgs, Keys(d.sdgs), TRUE)
        tx3 == [tx2 EXCEPT !.project_sdgs = ins.tab]
        tx4 == [tx3 EXCEPT !.project_typologies = @ \o
                   [i \in 1..Len(form.typologies) |->
                       [project_id |-> project_id, typology |-> TypologyCodes(form)[i]]]]
        tx5 == [tx4 EXCEPT !.project_requirements = @ \o
                   [i \in 1..Len(form.requirements) |->
                       [project_id |-> project_id,
                        requirement_category |-> form.requirements[i].category,
                        requirement_text |-> RequirementCodes(form)[i]]]]
        tx6 == [tx5 EXCEPT !.project_images =
                   InsertImages(@, project_id, form.image_urls, 0)]
    IN IF ~known /\ ~EMAIL_REGEX_match(form.contact_email)
       THEN CreateOutcome("IntegrityError", Rollback(d, tx1), None, None)
       ELSE IF form.brief_len > MAX_BRIEF_DESCRIPTION_LENGTH
       THEN CreateOutcome("DataError", Rollback(d, tx2), None, None)
       ELSE IF \/ form.latitude = None \/ form.longitude = None
               \/ form.latitude < LAT_MIN \/ form.latitude > LAT_MAX
               \/ form.longitude < LON_MIN \/ form.longitude > LON_MAX
               \/ funding < 0
               \/ ~EMAIL_REGEX_match(form.contact_email)
       THEN CreateOutcome("IntegrityError", Rollback(d, tx2), None, None)
       ELSE IF ins.err # "none"
       THEN CreateOutcome(ins.err, Rollback(d, tx3), None, None)
       ELSE IF ~NoDuplicates(TypologyCodes(form))
       THEN CreateOutcome("IntegrityError", Rollback(d, tx4), None, None)
       ELSE IF \E i \in 1..Len(form.requirements) :
                  form.requirements[i].category \notin REQUIREMENT_CATEGORY_ENUM
       THEN CreateOutcome("DataError", Rollback(d, tx5), None, None)
       ELSE IF ~NoDuplicates(RequirementCodes(form))
       THEN CreateOutcome("IntegrityError", Rollback(d, tx5), None, None)
       ELSE CreateOutcome("none", tx6, project_id, uuid_head(d, project_id))

(***************************************************************************)
(* utils.validate_project_form: the list of error messages, in the order   *)
(* the checks run.                                                         *)
(***************************************************************************)
validate_coordinates(lat, lon) ==
    IF lat = None /\ lon = None THEN <<>>
    ELSE IF lat = None \/ lon = None
    THEN <<"Both latitude and longitude must be provided together">>
    ELSE IF ~(LAT_MIN <= lat /\ lat <= LAT_MAX)
    THEN <<"Latitude must be between -90 and 90">>
    ELSE IF ~(LON_MIN <= lon /\ lon <= LON_MAX)
    THEN <<"Longitude must be between -180 and 180">>
    ELSE <<>>

validate_funding_amount(amount) ==
    IF amount = None THEN <<>>
    ELSE IF ~(MIN_FUNDING_AMOUNT <= amount /\ amount <= MAX_FUNDING_AMOUNT)
    THEN <<"Funding amount must be between $0 and $999,999,999.99">>
    ELSE <<>>

validate_project_form(form) ==
    (IF form.project_name = "" THEN <<"Project name is required">> ELSE <<>>) \o
    (IF form.contact_email = "" THEN <<"Contact email is required">> ELSE <<>>) \o
    (IF form.contact_email # "" /\ ~EMAIL_REGEX_match(form.contact_email)
        THEN <<"Please enter a valid email address.">> ELSE <<>>) \o
    (IF form.brief_len > MAX_BRIEF_DESCRIPTION_LENGTH
        THEN <<"Brief description exceeds maximum length of 255 characters">> ELSE <<>>) \o
    (IF form.latitude # None \/ form.longitude # None
        THEN validate_coordinates(form.latitude, form.longitude) ELSE <<>>) \o
    (IF form.funding_needed_usd # None
        THEN validate_funding_amount(form.funding_needed_usd) ELSE <<>>) \o
    (IF Len(form.sdgs) = 0 THEN <<"Please select at least one SDG.">> ELSE <<>>)

(***************************************************************************)
(* The data-model invariants a draft can violate, by field.                *)
(***************************************************************************)
ViolatedFields(form) ==
    {f \in {"latitude", "longitude", "coordinates", "funding", "email", "brief", "sdgs"} :
        \/ f = "latitude" /\ form.latitude # None /\ (form.latitude < -90 \/ form.latitude > 90)
        \/ f = "longitude" /\ form.longitude # None /\ (form.longitude < -180 \/ form.longitude > 180)
        \/ f = "coordinates" /\ ((form.latitude = None) # (form.longitude = None))
        \/ f = "funding" /\ form.funding_needed_usd # None /\ form.funding_needed_usd < 0
        \/ f = "email" /\ ~EMAIL_REGEX_match(form.contact_email)
        \/ f = "brief" /\ form.brief_len > 255
        \/ f = "sdgs" /\ Len(form.sdgs) = 0}

MessageOf(f) ==
    CASE f = "latitude" -> "Latitude must be between -90 and 90"
      [] f = "longitude" -> "Longitude must be between -180 and 180"
      [] f = "coordinates" -> "Both latitude and longitude must be provided together"
      [] f = "funding" -> "Funding amount must be between $0 and $999,999,999.99"
      [] f = "email" -> "Please enter a valid email address."
      [] f = "brief" -> "Brief description exceeds maximum length of 255 characters"
      [] OTHER -> "Please select at least one SDG."

(***************************************************************************)
(* Arguments the callers supply.  On SQLite the calls address the first    *)
(* created project (an unknown id until it is created); on PostgreSQL the  *)
(* first created project or, once each, an id no project has and text that *)
(* is no id.                                                               *)
(* <<new_status, reason, reviewer_id>> are as the review form, the quick   *)
(* actions and the bulk interface pass them.                               *)
(***************************************************************************)
IdInputs == {SampleCount + 1}
IdTextInputs == {ToString(SampleCount + 1), "abc"}
UpdateShapes ==
    {<<s, "notes", None>> : s \in WORKFLOW_STATUSES} \cup
    {<<"approved", "notes", AdminUserId>>, <<"in_review", "notes", AdminUserId>>,
     <<"rejected", "", None>>, <<"archived", "notes", None>>}
UpdateTextShapes ==
    {<<"approved", "notes", NoneStr>>, <<"rejected", NoneStr, "1">>,
     <<"approved", "notes", "zz">>}
PostgresUpdateShapes ==
    {<<"approved", "notes", "1">>, <<"rejected", "notes", "1">>,
     <<"rejected", "", "1">>, <<"changes_requested", NoneStr, "1">>,
     <<"in_review", "notes", "1">>, <<"approved", "notes", NoneStr>>,
     <<"approved", "notes", "zz">>}
PostgresCalls ==
    {<<"1", u[1], u[2], u[3]>> : u \in PostgresUpdateShapes} \cup
    {<<ToString(MaxId), "approved", "notes", "1">>, <<"abc", "approved", "notes", "1">>}

StatusOf(d, id) ==
    IF id \in DOMAIN d.projects THEN d.projects[id].workflow_status ELSE NoneStr

CallResult(op, err, pid, old, new_status, reason, reviewer, ret) ==
    [op |-> op, err |-> err, pid |-> pid, old |-> old, new_status |-> new_status,
     reason |-> reason, reviewer |-> reviewer, ret |-> ret,
     form |-> <<>>, errors |-> <<>>]

HistoryRoom == Len(db.history) < MaxHistory

UpdateStatusDirect(project_id, new_status, reason, reviewer_id) ==
    /\ backend = "sqlite"
    /\ HistoryRoom
    /\ LET out == AtlasDB_update_project_status(db, project_id, new_status, reason, reviewer_id)
       IN /\ db' = out.db
          /\ result' = CallResult("update_project_status", out.err, project_id,
                                  StatusOf(db, project_id), new_status, reason,
                                  reviewer_id, None)
    /\ UNCHANGED <<backend, now, sessions>>

UpdateStatusAdapter(project_id, new_status, reason, reviewer_id) ==
    /\ backend = "sqlite"
    /\ HistoryRoom
    /\ LET out == AtlasDBAdapter_update_project_status(db, project_id, new_status, reason, reviewer_id)
       IN /\ db' = out.db
          /\ result' = CallResult("update_project_status", out.err, ParseId(project_id),
                                  StatusOf(db, ParseId(project_id)), new_status, reason,
                                  IF TruthyStr(reviewer_id) THEN ParseId(reviewer_id) ELSE None,
                                  None)
    /\ UNCHANGED <<backend, now, sessions>>

UpdateStatusPostgres(project_id, new_status, reason, reviewer_id) ==
    /\ backend = "postgres"
    /\ HistoryRoom
    /\ LET out == AtlasPostgreSQLDB_update_project_status(db, project_id, new_status, reason, reviewer_id)
       IN /\ db' = out.db
          /\ result' = CallResult("update_project_status", out.err, ParseId(project_id),
                                  StatusOf(db, ParseId(project_id)), new_status, reason,
                                  IF TruthyStr(reviewer_id) THEN ParseId(reviewer_id) ELSE None,
                                  None)
    /\ UNCHANGED <<backend, now, sessions>>

(***************************************************************************)
(* Reads.  A lookup returns <<>> for None and <<record>> otherwise; a      *)
(* listing returns the set of identifiers of the rows it selects.          *)
(***************************************************************************)
Detail(d, id, sdgs) ==
    [project |-> d.projects[id],
     sdgs |-> sdgs,
     typologies |-> SelectSeq(d.project_typologies, LAMBDA r : r.project_id = id),
     requirements |-> SelectSeq(d.project_requirements, LAMBDA r : r.project_id = id),
     images |-> SelectSeq(d.project_images, LAMBDA r : r.project_id = id)]

AtlasDB_get_project_by_id(d, project_id) ==
    IF project_id \notin DOMAIN d.projects THEN <<>>
    ELSE <<Detail(d, project_id,
                  {p[2] : p \in {q \in d.project_sdgs : q[1] = project_id /\ q[2] \in Keys(d.sdgs)}})>>

AtlasDBAdapter_get_project_by_id(d, project_id) ==
    LET int_id == ParseId(project_id)
    IN IF int_id = None THEN <<>> ELSE AtlasDB_get_project_by_id(d, int_id)

AtlasPostgreSQLDB_get_project_by_id(d, project_id) ==
    LET project_uuid == ParseId(project_id)
    IN IF project_uuid = None THEN <<>>
       ELSE IF project_uuid \notin DOMAIN d.projects THEN <<>>
       ELSE <<Detail(d, project_uuid,
                     {p[2] : p \in {q \in d.project_sdgs : q[1] = project_uuid /\ q[2] \in Keys(d.sdgs)}})>>

get_project_by_id(d, project_id) ==
    IF backend = "sqlite" THEN AtlasDBAdapter_get_project_by_id(d, project_id)
    ELSE AtlasPostgreSQLDB_get_project_by_id(d, project_id)

lower(text) ==
    CASE text = "Accra" -> "accra"
      [] text = "ACCRA" -> "accra"
      [] text = "Amsterdam" -> "amsterdam"
      [] OTHER -> text

(* Fault model: a listing without its WHERE clause.                         *)
ListsEveryProject(d) == DOMAIN d.projects

AtlasDB_get_all_published_projects(d) ==
    {id \in DOMAIN d.projects : d.projects[id].workflow_status = "approved"}

AtlasPostgreSQLDB_get_all_published_projects(d) ==
    {id \in DOMAIN d.projects : /\ d.projects[id].uia_region_id \in Keys(d.uia_regions)
                                /\ d.projects[id].workflow_status = "approved"
                                /\ d.projects[id].deleted_at = None}

get_all_published_projects(d) ==
    IF backend = "sqlite" THEN AtlasDB_get_all_published_projects(d)
    ELSE AtlasPostgreSQLDB_get_all_published_projects(d)

(***************************************************************************)
(* get_projects_by_filters.  A filter is the four named arguments and the  *)
(* keyword arguments near (near_lat, near_lon), radius_km, bounds and      *)
(* limit; a keyword that was not passed is <<>> (near, bounds) or None.    *)
(***************************************************************************)
DEFAULT_SEARCH_RADIUS_KM == 50
MAX_SEARCH_RADIUS_KM == 500
MAX_QUERY_RESULTS == 10000
KmPerDegree == 111

Kwargs(near, radius_km, bounds, limit) ==
    [near |-> near, radius_km |-> radius_km, bounds |-> bounds, limit |-> limit]

NoKwargs == Kwargs(<<>>, None, <<>>, None)

Filter(region, sdg, city, funded_by, kwargs) ==
    [region |-> region, sdg |-> sdg, city |-> city, funded_by |-> funded_by,
     kwargs |-> kwargs]

Abs(x) == IF x < 0 THEN -x ELSE x

Min(a, b) == IF a <= b THEN a ELSE b

(* LOWER(organization_name) LIKE LOWER('%funded_by%') / ilike.             *)
ilike(organization_name, funded_by) ==
    CASE funded_by = "water" ->
            organization_name \in {"Accra Water Works", "Cape Town Water Department"}
      [] funded_by = "Fund" -> organization_name \in {"Green Fund"}
      [] OTHER -> organization_name = funded_by

region_name(d, region_id) ==
    IF region_id \in Keys(d.uia_regions)
    THEN (CHOOSE r \in Range(d.uia_regions) : r.key = region_id).name
    ELSE NoneStr

(* ST_DWithin on geography points; the distance is taken along the         *)
(* meridian and the parallel, exact for two points of one meridian.        *)
DistanceKm(a, b) == KmPerDegree * (Abs(a[1] - b[1]) + Abs(a[2] - b[2]))

ST_DWithin(geolocation, point, meters) ==
    /\ geolocation # <<>>
    /\ DistanceKm(geolocation, point) * 1000 <= meters

(* bounds is <<north, south, east, west>>.                                  *)
ST_Within(geolocation, bounds) ==
    /\ geolocation # <<>>
    /\ bounds[2] < geolocation[1] /\ geolocation[1] < bounds[1]
    /\ bounds[4] < geolocation[2] /\ geolocation[2] < bounds[3]

AtlasDB_get_projects_by_filters(d, region, sdg, city, funded_by) ==
    {id \in DOMAIN d.projects :
        /\ d.projects[id].workflow_status = "approved"
        /\ TruthyStr(region) => region_name(d, d.projects[id].uia_region_id) = region
        /\ Truthy(sdg) => <<id, sdg>> \in d.project_sdgs
        /\ TruthyStr(city) => lower(d.projects[id].city) = lower(city)
        /\ TruthyStr(funded_by) => ilike(d.projects[id].organization_name, funded_by)}

AtlasDBAdapter_get_projects_by_filters(d, region, sdg, city, funded_by, kwargs) ==
    AtlasDB_get_projects_by_filters(d, region, sdg, city, funded_by)

IdsInScanOrder(d) ==
    LET n == d.seq_projects
        ids == IF d.server.scan = "ascending" THEN [i \in 1..n |-> i]
               ELSE [i \in 1..n |-> n + 1 - i]
        stored == DOMAIN d.projects
        Stored(id) == id \in stored
    IN SelectSeq(ids, Stored)

AtlasPostgreSQLDB_get_projects_by_filters(d, region, sdg, city, funded_by, kwargs) ==
    LET radius_km == IF kwargs.radius_km = None THEN DEFAULT_SEARCH_RADIUS_KM
                     ELSE kwargs.radius_km
        regions == Keys(d.uia_regions)
        Matches(id) ==
            /\ d.projects[id].uia_region_id \in regions
            /\ d.projects[id].workflow_status = "approved"
            /\ d.projects[id].deleted_at = None
            /\ TruthyStr(region) => region_name(d, d.projects[id].uia_region_id) = region
            /\ Truthy(sdg) => <<id, sdg>> \in d.project_sdgs
            /\ TruthyStr(city) => lower(d.projects[id].city) = lower(city)
            /\ TruthyStr(funded_by) => ilike(d.projects[id].organization_name, funded_by)
            /\ kwargs.near # <<>> =>
                  ST_DWithin(d.projects[id].geolocation, kwargs.near, radius_km * 1000)
            /\ Len(kwargs.bounds) = 4 =>
                  ST_Within(d.projects[id].geolocation, kwargs.bounds)
        limit == Min(IF kwargs.limit = None THEN MAX_QUERY_RESULTS ELSE kwargs.limit,
                     MAX_QUERY_RESULTS)
        matching == {id \in DOMAIN d.projects : Matches(id)}
        rows == SelectSeq(IdsInScanOrder(d), Matches)
        failed == Len(kwargs.bounds) = 4 /\ ~d.server.st_within_geography
    IN IF failed THEN {}
       ELSE IF Cardinality(matching) <= limit THEN matching
       ELSE Range(SubSeq(rows, 1, limit))

get_projects_by_filters(d, f) ==
    IF backend = "sqlite"
    THEN AtlasDBAdapter_get_projects_by_filters(d, f.region, f.sdg, f.city, f.funded_by, f.kwargs)
    ELSE AtlasPostgreSQLDB_get_projects_by_filters(d, f.region, f.sdg, f.city, f.funded_by, f.kwargs)

(* AtlasPostgreSQLDB.get_projects_near_location; the SQLite adapter        *)
(* inherits the base method, which raises NotImplementedError.             *)
AtlasPostgreSQLDB_get_projects_near_location(d, latitude, longitude, radius_km) ==
    AtlasPostgreSQLDB_get_projects_by_filters(d, NoneStr, None, NoneStr, NoneStr,
        Kwargs(<<latitude, longitude>>, Min(radius_km, MAX_SEARCH_RADIUS_KM), <<>>, None))

AtlasPostgreSQLDB_get_projects_in_bounds(d, north, south, east, west) ==
    AtlasPostgreSQLDB_get_projects_by_filters(d, NoneStr, None, NoneStr, NoneStr,
        Kwargs(<<>>, None, <<north, south, east, west>>, None))

(***************************************************************************)
(* get_pending_reviews: the selected ids in the order of the ORDER BY.     *)
(* OrderedBy lists a set by a strict total order.  SQLite compares the     *)
(* created_at texts, which on one day differ first in the separator        *)
(* (" " sorts before "T"); rows with equal keys come in rowid order on     *)
(* SQLite and in scan order on PostgreSQL.                                 *)
(***************************************************************************)
OrderedBy(ids, Before(_, _)) ==
    [k \in 1..Cardinality(ids) |->
        CHOOSE id \in ids : Cardinality({j \in ids : Before(j, id)}) = k - 1]

TextBefore(a, b) ==
    \/ ~a.created_at_iso /\ b.created_at_iso
    \/ a.created_at_iso = b.created_at_iso /\ a.created_at < b.created_at

(* Fault model: the pending listing with the status list of the admin      *)
(* metrics, which leaves out changes_requested.                            *)
PendingWithoutChangesRequested(d) ==
    LET selected == {id \in DOMAIN d.projects :
                        d.projects[id].workflow_status \in {"submitted", "in_review"}}
        Before(a, b) ==
            \/ TextBefore(d.projects[a], d.projects[b])
            \/ ~TextBefore(d.projects[b], d.projects[a]) /\ a < b
    IN OrderedBy(selected, Before)

AtlasDB_get_pending_reviews(d) ==
    LET selected == {id \in DOMAIN d.projects :
                        d.projects[id].workflow_status \in PENDING_STATUSES}
        Before(a, b) ==
            \/ TextBefore(d.projects[a], d.projects[b])
            \/ ~TextBefore(d.projects[b], d.projects[a]) /\ a < b
    IN OrderedBy(selected, Before)

AtlasPostgreSQLDB_get_pending_reviews(d) ==
    LET selected == {id \in DOMAIN d.projects :
                        /\ d.projects[id].uia_region_id \in Keys(d.uia_regions)
                        /\ d.projects[id].workflow_status \in PENDING_STATUSES
                        /\ d.projects[id].deleted_at = None}
        Before(a, b) ==
            \/ d.projects[a].submission_date < d.projects[b].submission_date
            \/ /\ d.projects[a].submission_date = d.projects[b].submission_date
               /\ IF d.server.scan = "ascending" THEN a < b ELSE b < a
    IN OrderedBy(selected, Before)

get_pending_reviews(d) ==
    IF backend = "sqlite" THEN AtlasDB_get_pending_reviews(d)
    ELSE AtlasPostgreSQLDB_get_pending_reviews(d)

(***************************************************************************)
(* get_admin_metrics: the two counts of the dashboard that are compared    *)
(* with the listings.  The dictionary also carries the approvals and the   *)
(* rejections of the current month and a fixed text for the review time.   *)
(***************************************************************************)
AtlasDB_get_admin_metrics(d) ==
    [pending_reviews |->
        Cardinality({id \in DOMAIN d.projects :
                        d.projects[id].workflow_status \in {"submitted", "in_review"}}),
     total_published |->
        Cardinality({id \in DOMAIN d.projects :
                        d.projects[id].workflow_status = "approved"})]

AtlasPostgreSQLDB_get_admin_metrics(d) ==
    [pending_reviews |->
        Cardinality({id \in DOMAIN d.projects :
                        /\ d.projects[id].workflow_status \in {"submitted", "in_review"}
                        /\ d.projects[id].deleted_at = None}),
     total_published |->
        Cardinality({id \in DOMAIN d.projects :
                        /\ d.projects[id].workflow_status = "approved"
                        /\ d.projects[id].deleted_at = None})]

get_admin_metrics(d) ==
    IF backend = "sqlite" THEN AtlasDB_get_admin_metrics(d)
    ELSE AtlasPostgreSQLDB_get_admin_metrics(d)

SdgFilters == {None, 7, 13}
CityFilters == {NoneStr, "ACCRA", "Amsterdam"}

(***************************************************************************)
(* handle_review_action (pages/4_admin.py): the review form of a project  *)
(* of the review queue.  Blank notes stop a reject / request-changes       *)
(* before the database is called; the reviewer is the constant admin id 1, *)
(* which the PostgreSQL backend cannot bind to its UUID column.  The       *)
(* handler catches every exception and shows it.                           *)
(***************************************************************************)
status_map(action) ==
    CASE action = "Approve & Publish" -> "approved"
      [] action = "Reject" -> "rejected"
      [] OTHER -> "changes_requested"

ReviewActions == {"Approve & Publish", "Reject", "Request Changes"}
NotesInputs == {" ", "notes"}

handle_review_action(project_id, action, notes) ==
    /\ HistoryRoom
    /\ project_id \in Range(get_pending_reviews(db))
    /\ LET new_status == status_map(action)
           blank == strip(notes) = ""
           out == IF backend = "sqlite"
                  THEN AtlasDBAdapter_update_project_status(db, ToString(project_id),
                                                            new_status, notes, ToString(AdminUserId))
                  ELSE Outcome("DataError", db)
       IN IF action \in {"Reject", "Request Changes"} /\ blank
          THEN /\ db' = db
               /\ result' = [CallResult("handle_review_action", "none", project_id,
                                        StatusOf(db, project_id), new_status, notes,
                                        AdminUserId, None)
                             EXCEPT !.errors = <<"review_notes_required">>]
          ELSE /\ db' = out.db
               /\ result' = [CallResult("handle_review_action", "none", project_id,
                                        StatusOf(db, project_id), new_status, notes,
                                        AdminUserId, None)
                             EXCEPT !.errors = IF out.err = "none" THEN <<>>
                                               ELSE <<"review_error">>]
    /\ UNCHANGED <<backend, now, sessions>>

(***************************************************************************)
(* create_project, called on the data-access object.                       *)
(***************************************************************************)
CreateRoom == db.seq_projects < MaxCreates + (IF backend = "sqlite" THEN SampleCount ELSE 0)

DatabaseInterface_create_project(d, form) ==
    IF backend = "sqlite" THEN AtlasDB_create_project(d, form)
    ELSE AtlasPostgreSQLDB_create_project(d, form)

CreateProject(form) ==
    /\ CreateRoom
    /\ LET out == DatabaseInterface_create_project(db, form)
       IN /\ db' = out.db
          /\ result' = [CallResult("create_project", out.err, out.pid, NoneStr,
                                   NoneStr, NoneStr, None, out.ret)
                        EXCEPT !.form = <<form>>]
    /\ UNCHANGED <<backend, now, sessions>>

(***************************************************************************)
(* handle_form_submission (pages/3_submit.py): validate, drop the blank    *)
(* image URLs, create; errors are displayed, never raised.                 *)
(***************************************************************************)
RECURSIVE NonBlank(_)
NonBlank(urls) ==
    IF urls = <<>> THEN <<>>
    ELSE IF strip(Head(urls)) # "" THEN <<Head(urls)>> \o NonBlank(Tail(urls))
    ELSE NonBlank(Tail(urls))

handle_form_submission(form) ==
    /\ CreateRoom
    /\ LET errors == validate_project_form(form)
           form_data == [form EXCEPT !.image_urls = NonBlank(@)]
           out == DatabaseInterface_create_project(db, form_data)
       IN IF errors # <<>>
          THEN /\ db' = db
               /\ result' = [CallResult("handle_form_submission", "none", None, NoneStr,
                                        NoneStr, NoneStr, None, None)
                             EXCEPT !.form = <<form>>, !.errors = errors]
          ELSE /\ db' = out.db
               /\ result' = [CallResult("handle_form_submission", "none", out.pid, NoneStr,
                                        NoneStr, NoneStr, None, out.ret)
                             EXCEPT !.form = <<form>>,
                                    !.errors = IF out.err = "none" THEN <<>>
                                               ELSE <<"An error occurred while submitting your project">>]
    /\ UNCHANGED <<backend, now, sessions>>

(***************************************************************************)
(* bulk_update_projects.  An update is a dict; Absent marks a missing key, *)
(* deleted_at says whether the dict carries a deleted_at timestamp and     *)
(* approval_date is the approval date it carries, if any.                  *)
(***************************************************************************)
Absent == "<absent>"

get(x) == IF x = Absent THEN NoneStr ELSE x

BulkOutcome(err, d, count) == [err |-> err, db |-> d, count |-> count]

RECURSIVE AtlasDBAdapter_bulk_update_projects(_, _, _)
AtlasDBAdapter_bulk_update_projects(d, updates, count) ==
    IF updates = <<>> THEN BulkOutcome("none", d, count)
    ELSE
      LET update == Head(updates)
          project_id == get(update.project_id)
          new_status == get(update.workflow_status)
          out == AtlasDBAdapter_update_project_status(d, project_id, new_status,
                     get(update.reason), get(update.reviewer_id))
      IN IF TruthyStr(project_id) /\ TruthyStr(new_status)
         THEN IF out.err = "none"
              THEN AtlasDBAdapter_bulk_update_projects(out.db, Tail(updates), count + 1)
              ELSE AtlasDBAdapter_bulk_update_projects(out.db, Tail(updates), count)
         ELSE AtlasDBAdapter_bulk_update_projects(d, Tail(updates), count)

RECURSIVE AtlasPostgreSQLDB_bulk_update_tx(_, _, _)
AtlasPostgreSQLDB_bulk_update_tx(tx, updates, count) ==
    IF updates = <<>> THEN BulkOutcome("none", tx, count)
    ELSE
      LET update == Head(updates)
          project_id == get(update.project_id)
          id == ParseId(project_id)
          tx1 == IF id \in DOMAIN tx.projects /\ update.workflow_status # Absent
                 THEN [tx EXCEPT !.projects[id].workflow_status = update.workflow_status]
                 ELSE tx
          tx2 == IF id \in DOMAIN tx.projects /\ update.deleted_at
                 THEN [tx1 EXCEPT !.projects[id].deleted_at = now]
                 ELSE tx1
          tx3 == IF id \in DOMAIN tx.projects /\ update.approval_date # None
                 THEN [tx2 EXCEPT !.projects[id].approval_date = update.approval_date]
                 ELSE tx2
      IN IF ~TruthyStr(project_id)
         THEN AtlasPostgreSQLDB_bulk_update_tx(tx, Tail(updates), count)
         ELSE IF update.reason # Absent \/ update.reviewer_id # Absent
         THEN BulkOutcome("InvalidRequestError", tx, count)
         ELSE IF id = None
                 \/ (update.workflow_status # Absent /\ update.workflow_status \notin WORKFLOW_STATUSES)
         THEN BulkOutcome("DataError", tx, count)
         ELSE IF id \in DOMAIN tx.projects /\ ~valid_workflow_dates(tx3.projects[id])
         THEN BulkOutcome("IntegrityError", tx, count)
         ELSE AtlasPostgreSQLDB_bulk_update_tx(tx3, Tail(updates), count + 1)

AtlasPostgreSQLDB_bulk_update_projects(d, updates) ==
    LET out == AtlasPostgreSQLDB_bulk_update_tx(d, updates, 0)
    IN IF out.err = "none" THEN out
       ELSE BulkOutcome("none", Rollback(d, out.db), 0)

UpdateDict(project_id, workflow_status, reason, deleted_at) ==
    [project_id |-> project_id, workflow_status |-> workflow_status,
     reason |-> reason, reviewer_id |-> Absent, deleted_at |-> deleted_at,
     approval_date |-> None]

BulkInputs ==
    LET target == IF backend = "sqlite" THEN ToString(SampleCount + 1) ELSE "1"
        approve == UpdateDict(target, "approved", Absent, FALSE)
        delete == UpdateDict(target, Absent, Absent, TRUE)
        reject == UpdateDict(target, "rejected", "notes", FALSE)
        malformed == UpdateDict("abc", "in_review", Absent, FALSE)
        unknown == UpdateDict(ToString(MaxId), "in_review", Absent, FALSE)
    IN {<<approve>>, <<delete>>, <<reject>>, <<malformed, approve>>,
        <<unknown, delete>>, <<approve, unknown>>}

(* Bulk updates that set the dates of the first project: an approval date  *)
(* before every submission, and a plain approval.                          *)
DateInputs ==
    {<<[UpdateDict("1", Absent, Absent, FALSE) EXCEPT !.approval_date = 0]>>,
     <<UpdateDict("1", "approved", Absent, FALSE)>>,
     <<UpdateDict("1", Absent, Absent, TRUE)>>}

BulkUpdateAdapter(updates) ==
    /\ backend = "sqlite"
    /\ Len(db.history) + Len(updates) <= MaxHistory
    /\ LET out == AtlasDBAdapter_bulk_update_projects(db, updates, 0)
       IN /\ db' = out.db
          /\ result' = CallResult("bulk_update_projects", out.err, None, NoneStr,
                                  NoneStr, NoneStr, None, out.count)
    /\ UNCHANGED <<backend, now, sessions>>

BulkUpdatePostgres(updates) ==
    /\ backend = "postgres"
    /\ LET out == AtlasPostgreSQLDB_bulk_update_projects(db, updates)
       IN /\ db' = out.db
          /\ result' = CallResult("bulk_update_projects", out.err, None, NoneStr,
                                  NoneStr, NoneStr, None, out.count)
    /\ UNCHANGED <<backend, now, sessions>>

(***************************************************************************)
(* Drafts.  The workflow specification submits well-formed drafts; the     *)
(* creation specification submits the base draft and its deviations.       *)
(***************************************************************************)
WorkflowDrafts == {BaseDraft}

Drafts ==
    {BaseDraft} \cup
    {[BaseDraft EXCEPT !.latitude = v] : v \in {None, 95}} \cup
    {[BaseDraft EXCEPT !.longitude = v] : v \in {None, 200}} \cup
    {[BaseDraft EXCEPT !.funding_needed_usd = v] : v \in {None, -5}} \cup
    {[BaseDraft EXCEPT !.contact_email = v] : v \in {BadEmail, "ben@org.org"}} \cup
    {[BaseDraft EXCEPT !.brief_len = 300]} \cup
    {[BaseDraft EXCEPT !.sdgs = v] : v \in {<<>>, <<7, 7>>, <<7, 99>>}} \cup
    {[BaseDraft EXCEPT !.typologies = <<"Floating", "Underground">>]} \cup
    {[BaseDraft EXCEPT !.requirements = <<[category |-> "Funding & Financial",
                                          text |-> "Philanthropic Support"]>>]} \cup
    {[BaseDraft EXCEPT !.image_urls = <<"http://img/1", " ", "http://img/2">>]} \cup
    {[BaseDraft EXCEPT !.latitude = 95, !.longitude = 200],
     [BaseDraft EXCEPT !.latitude = 95, !.contact_email = BadEmail, !.sdgs = <<>>]}

Next ==
    \/ Tick
    \/ \E id \in IdInputs, u \in UpdateShapes :
          UpdateStatusDirect(id, u[1], u[2], u[3])
    \/ \E id \in IdTextInputs, u \in UpdateTextShapes :
          UpdateStatusAdapter(id, u[1], u[2], u[3])
    \/ \E c \in PostgresCalls : UpdateStatusPostgres(c[1], c[2], c[3], c[4])
    \/ \E id \in Range(get_pending_reviews(db)), a \in ReviewActions, n \in NotesInputs :
          handle_review_action(id, a, n)
    \/ \E form \in WorkflowDrafts : CreateProject(form)
    \/ \E updates \in BulkInputs : BulkUpdateAdapter(updates)
    \/ \E updates \in BulkInputs : BulkUpdatePostgres(updates)

Spec == Init /\ [][Next]_vars

(***************************************************************************)
(* The listing specification: every call of the workflow specification     *)
(* that writes a project, at one instant (no listing reads the clock).     *)
(***************************************************************************)
NextPublish ==
    \/ \E id \in IdInputs, u \in UpdateShapes :
          UpdateStatusDirect(id, u[1], u[2], u[3])
    \/ \E id \in IdTextInputs, u \in UpdateTextShapes :
          UpdateStatusAdapter(id, u[1], u[2], u[3])
    \/ \E c \in PostgresCalls : UpdateStatusPostgres(c[1], c[2], c[3], c[4])
    \/ \E id \in Range(get_pending_reviews(db)), a \in ReviewActions, n \in NotesInputs :
          handle_review_action(id, a, n)
    \/ \E form \in WorkflowDrafts : CreateProject(form)
    \/ \E updates \in BulkInputs : BulkUpdateAdapter(updates)
    \/ \E updates \in BulkInputs : BulkUpdatePostgres(updates)

SpecPublish == Init /\ [][NextPublish]_vars

(***************************************************************************)
(* The creation specification: submissions only, over all drafts.          *)
(***************************************************************************)
NextCreate ==
    \/ Tick
    \/ \E form \in Drafts : CreateProject(form)
    \/ \E form \in Drafts : handle_form_submission(form)

SpecCreate == Init /\ [][NextCreate]_vars

(***************************************************************************)
(* The query specification: the listings applied to stored data sets.      *)
(* Every project of a data set lies on the meridian of longitude 10.       *)
(* AtlasData holds approved, pending and, if asked, soft-deleted projects   *)
(* of two cities, project 5 being on SQLite a project of                   *)
(* load_real_world_projects that was unpublished; LargeData holds one      *)
(* approved project more than MAX_QUERY_RESULTS, all of one city, the last *)
(* of them alone with SDG 13.                                              *)
(***************************************************************************)
DataLongitude == 10

DataRow(id, status, city, region, organization, lat, t, server) ==
    [ProjectRow(id, "Sample", "sample@city.org", city, lat, DataLongitude, 1000, 100,
                status, None, NoneStr, t, AdminUserId)
       EXCEPT !.uia_region_id = region, !.organization_name = organization,
              !.geolocation = IF server.trigger_update_geolocation
                              THEN <<lat, DataLongitude>> ELSE <<>>]

DataBase(server) ==
    [(IF backend = "sqlite" THEN populate_reference_data(EmptyDb) ELSE PostgresInitDb)
       EXCEPT !.users = {[id |-> AdminUserId, email |-> AdminEmail,
                          contact_person |-> "Admin User"]},
              !.seq_users = AdminUserId,
              !.server = server]

AtlasData(server, soft_deleted) ==
    LET rows == <<DataRow(1, "approved", "Accra", 5, "Accra Water Works", 45, 1, server),
                  DataRow(2, "approved", "accra", 5, "Green Fund", 46, 1, server),
                  DataRow(3, "approved", "Amsterdam", 1,
                          "Amsterdam Urban Planning Department", 50, 1, server),
                  DataRow(4, "submitted", "Accra", 5, "Accra Water Works", 45, 2, server),
                  [DataRow(5, "in_review", "Accra", 5, "Green Fund", 45, 1, server)
                     EXCEPT !.created_at_iso = backend = "sqlite"],
                  [DataRow(6, "approved", "Accra", 5, "Green Fund", 45, 1, server)
                     EXCEPT !.deleted_at = IF soft_deleted THEN 1 ELSE None]>>
    IN [DataBase(server) EXCEPT
          !.projects = rows,
          !.seq_projects = Len(rows),
          !.project_sdgs = {<<1, 7>>, <<1, 13>>, <<2, 13>>, <<3, 7>>, <<3, 11>>,
                            <<4, 13>>, <<5, 13>>, <<6, 13>>}]

LargeCount == MAX_QUERY_RESULTS + 1

LargeData(server) ==
    [DataBase(server) EXCEPT
       !.projects = [i \in 1..LargeCount |->
                       DataRow(i, "approved", "Accra", 5, "Accra Water Works", 45, 1, server)],
       !.seq_projects = LargeCount,
       !.project_sdgs = {<<LargeCount, 13>>}]

Servers == {Server(t, w, s) : t \in BOOLEAN, w \in BOOLEAN, s \in ScanOrders}

InitQuery ==
    /\ backend \in {"sqlite", "postgres"}
    /\ now = 1
    /\ db \in IF backend = "sqlite" THEN {AtlasData(CodeOnlyServer, FALSE)}
              ELSE {AtlasData(x, TRUE) : x \in Servers} \cup
                   {AtlasData(Server(TRUE, TRUE, s), FALSE) : s \in ScanOrders} \cup
                   {LargeData(Server(TRUE, TRUE, s)) : s \in ScanOrders}
    /\ result = NoResult
    /\ sessions = NoSessions

(***************************************************************************)
(* Single-option filters and the filter that supplies the options of two   *)
(* of them together.                                                       *)
(***************************************************************************)
NoFilter == Filter(NoneStr, None, NoneStr, NoneStr, NoKwargs)

QueryPoint == <<45, DataLongitude>>

SingleOptionFilters ==
    {[NoFilter EXCEPT !.region = "Section V - Africa"],
     [NoFilter EXCEPT !.sdg = 13],
     [NoFilter EXCEPT !.sdg = 7],
     [NoFilter EXCEPT !.city = "ACCRA"],
     [NoFilter EXCEPT !.funded_by = "water"],
     [NoFilter EXCEPT !.kwargs.near = QueryPoint],
     [NoFilter EXCEPT !.kwargs.bounds = <<47, 44, 11, 9>>]}

Both(f, g) ==
    Filter(IF TruthyStr(f.region) THEN f.region ELSE g.region,
           IF Truthy(f.sdg) THEN f.sdg ELSE g.sdg,
           IF TruthyStr(f.city) THEN f.city ELSE g.city,
           IF TruthyStr(f.funded_by) THEN f.funded_by ELSE g.funded_by,
           Kwargs(IF f.kwargs.near # <<>> THEN f.kwargs.near ELSE g.kwargs.near,
                  IF f.kwargs.radius_km # None THEN f.kwargs.radius_km ELSE g.kwargs.radius_km,
                  IF f.kwargs.bounds # <<>> THEN f.kwargs.bounds ELSE g.kwargs.bounds,
                  None))

Options(f) ==
    {o \in {"region", "sdg", "city", "funded_by", "near", "bounds"} :
        \/ o = "region" /\ TruthyStr(f.region)
        \/ o = "sdg" /\ Truthy(f.sdg)
        \/ o = "city" /\ TruthyStr(f.city)
        \/ o = "funded_by" /\ TruthyStr(f.funded_by)
        \/ o = "near" /\ f.kwargs.near # <<>>
        \/ o = "bounds" /\ f.kwargs.bounds # <<>>}

QueryResult(op, filters, ret) ==
    [NoResult EXCEPT !.op = op, !.form = filters, !.ret = ret]

(* Three calls on the unchanged data: each option alone, then both.        *)
QueryFilters(f, g) ==
    /\ Options(f) \cap Options(g) = {}
    /\ result' = QueryResult("get_projects_by_filters", <<f, g>>,
                             <<get_projects_by_filters(db, f),
                               get_projects_by_filters(db, g),
                               get_projects_by_filters(db, Both(f, g))>>)
    /\ UNCHANGED <<backend, now, db, sessions>>

RadiusInputs == {None, 100, 600}

(* One call with near_lat, near_lon and, unless None, radius_km.           *)
QueryNear(radius_km) ==
    /\ result' = QueryResult("get_projects_by_filters",
                             <<[NoFilter EXCEPT !.kwargs.near = QueryPoint,
                                                !.kwargs.radius_km = radius_km]>>,
                             <<get_projects_by_filters(db,
                                  [NoFilter EXCEPT !.kwargs.near = QueryPoint,
                                                   !.kwargs.radius_km = radius_km])>>)
    /\ UNCHANGED <<backend, now, db, sessions>>

get_projects_near_location(latitude, longitude, radius_km) ==
    /\ result' = IF backend = "sqlite"
                 THEN [QueryResult("get_projects_near_location", <<radius_km>>, None)
                         EXCEPT !.err = "NotImplementedError"]
                 ELSE QueryResult("get_projects_near_location", <<radius_km>>,
                         AtlasPostgreSQLDB_get_projects_near_location(db, latitude,
                                                                      longitude, radius_km))
    /\ UNCHANGED <<backend, now, db, sessions>>

(* On the large data set one pair of options is queried.                   *)
FilterPairs ==
    IF db.seq_projects = LargeCount
    THEN {<<[NoFilter EXCEPT !.city = "ACCRA"], [NoFilter EXCEPT !.sdg = 13]>>}
    ELSE SingleOptionFilters \X SingleOptionFilters

NextQuery ==
    \/ \E p \in FilterPairs : QueryFilters(p[1], p[2])
    \/ \E r \in RadiusInputs : QueryNear(r)
    \/ \E r \in RadiusInputs \ {None} : get_projects_near_location(QueryPoint[1], QueryPoint[2], r)

SpecQuery == InitQuery /\ [][NextQuery]_vars

(***************************************************************************)
(* load_sdg_projects.py.  Each function commits its own transaction; an    *)
(* INSERT that violates a key raises, the connection is dropped without    *)
(* commit and the function's DELETE is undone with it.                     *)
(***************************************************************************)
(* The same four DELETEs on a connection that enforces foreign keys: the    *)
(* ON DELETE CASCADE of project_workflow_history removes the history rows. *)
ClearWithCascade(d) ==
    [d EXCEPT !.project_sdgs = {}, !.project_typologies = <<>>,
              !.project_requirements = <<>>, !.projects = <<>>,
              !.history = <<>>]

(* No connection issues PRAGMA foreign_keys, so the cascade is not applied. *)
clear_existing_data(d) ==
    [d EXCEPT !.project_sdgs = {}, !.project_typologies = <<>>,
              !.project_requirements = <<>>, !.projects = <<>>]

RECURSIVE InsertRows(_, _, _)
InsertRows(tab, rows, unique_name) ==
    IF rows = <<>> THEN [err |-> "none", tab |-> tab]
    ELSE LET r == Head(rows)
             conflict == \E i \in 1..Len(tab) :
                            \/ tab[i].key = r.key
                            \/ unique_name /\ tab[i].name = r.name
         IN IF conflict THEN [err |-> "IntegrityError", tab |-> tab]
            ELSE InsertRows(Append(tab, r), Tail(rows), unique_name)

LoadedRegionName(i) ==
    CASE i = 1 -> "Region I - Western Europe"
      [] i = 2 -> "Region II - Central and Eastern Europe and Middle East"
      [] i = 3 -> "Region III - The Americas"
      [] i = 4 -> "Region IV - Asia and Oceania"
      [] OTHER -> "Region V - Africa"

LoadedSdgName(i) == IF i = 3 THEN "Good Health and Well-Being" ELSE ToString(i)

regions == [i \in RegionCatalog |-> CatalogRow(i, LoadedRegionName(i), NoneStr)]

sdgs == [i \in SdgCatalog |-> CatalogRow(i, LoadedSdgName(i), NoneStr)]

load_uia_regions(d) ==
    LET ins == InsertRows(<<>>, regions, TRUE)
    IN IF ins.err = "none" THEN Outcome("none", [d EXCEPT !.uia_regions = ins.tab])
       ELSE Outcome(ins.err, d)

load_sdgs_data(d) ==
    LET ins == InsertRows(<<>>, sdgs, FALSE)
    IN IF ins.err = "none" THEN Outcome("none", [d EXCEPT !.sdgs = ins.tab])
       ELSE Outcome(ins.err, d)

load_typologies_data(d) ==
    LET ins == InsertRows(<<>>, <<CatalogRow(1, "Residential", NoneStr),
                                  CatalogRow(2, "Infrastructure", NoneStr),
                                  CatalogRow(3, "Other", NoneStr)>>, TRUE)
    IN IF ins.err = "none" THEN Outcome("none", [d EXCEPT !.typologies = ins.tab])
       ELSE Outcome(ins.err, d)

load_requirements_data(d) ==
    LET ins == InsertRows(<<>>, <<CatalogRow(1, "Community Engagement", NoneStr),
                                  CatalogRow(2, "Political Support", NoneStr),
                                  CatalogRow(3, "Monitoring & Evaluation System", NoneStr)>>, TRUE)
    IN IF ins.err = "none" THEN Outcome("none", [d EXCEPT !.requirements = ins.tab])
       ELSE Outcome(ins.err, d)

(* The projects of load_real_world_projects, LoadedCount of them.          *)
LoadedProject(k) ==
    IF k = 1
    THEN [project_name |-> "Barcelona Superblocks", city |-> "Barcelona",
          uia_region_id |-> 1, organization_name |-> "Barcelona City Council",
          contact_email |-> "pmartinez@bcn.cat", latitude |-> 41, longitude |-> 2,
          funding_needed_usd |-> 12500000, sdgs |-> {11, 13, 3},
          typology |-> "Public Realm & Urban Landscape"]
    ELSE [project_name |-> "Copenhagen Cycle Superhighways", city |-> "Copenhagen",
          uia_region_id |-> 1, organization_name |-> "City of Copenhagen",
          contact_email |-> "cycling@kk.dk", latitude |-> 55, longitude |-> 12,
          funding_needed_usd |-> 8000000, sdgs |-> {11, 3},
          typology |-> "Infrastructure"]

load_real_world_projects(d) ==
    LET first == d.seq_projects
        Row(k) == LET p == LoadedProject(k)
                  IN [ProjectRow(first + k, p.project_name, p.contact_email, p.city,
                                 p.latitude, p.longitude, p.funding_needed_usd, 100,
                                 "approved", None, NoneStr, now, None)
                        EXCEPT !.uia_region_id = p.uia_region_id,
                               !.organization_name = p.organization_name,
                               !.created_at_iso = TRUE,
                               !.updated_at_iso = TRUE]
    IN [d EXCEPT
          !.projects = [id \in DOMAIN @ \cup ((first + 1)..(first + LoadedCount)) |->
                          IF id \in DOMAIN @ THEN @[id] ELSE Row(id - first)],
          !.seq_projects = first + LoadedCount,
          !.project_sdgs = @ \cup {q \in ((first + 1)..(first + LoadedCount)) \X SdgCatalog :
                                      q[2] \in LoadedProject(q[1] - first).sdgs},
          !.project_typologies = @ \o [k \in 1..LoadedCount |->
                                    [project_id |-> first + k,
                                     typology |-> LoadedProject(k).typology]],
          !.project_requirements = @ \o [k \in 1..LoadedCount |->
                                    [project_id |-> first + k,
                                     requirement_category |-> "Implementation",
                                     requirement_text |-> "Political Support"]]]

(***************************************************************************)
(* AtlasDB.__init__: the tables exist, populate_reference_data runs and    *)
(* an empty projects table is seeded with the samples.                     *)
(***************************************************************************)
AtlasDB_init(d) ==
    LET seeded == populate_reference_data(d)
    IN IF DOMAIN seeded.projects = {} THEN seed_sample_data(seeded) ELSE seeded

(***************************************************************************)
(* load_comprehensive_sdg_data: on SQLite, opens the database and runs the *)
(* six steps in order; on any other configuration it returns at once.      *)
(***************************************************************************)
load_comprehensive_sdg_data(d) ==
    IF backend # "sqlite" THEN Outcome("none", d)
    ELSE LET d1 == clear_existing_data(AtlasDB_init(d))
             r2 == load_uia_regions(d1)
             r3 == load_sdgs_data(r2.db)
             r4 == load_typologies_data(r3.db)
             r5 == load_requirements_data(r4.db)
         IN CASE r2.err # "none" -> r2
              [] r3.err # "none" -> r3
              [] r4.err # "none" -> r4
              [] r5.err # "none" -> r5
              [] OTHER -> Outcome("none", load_real_world_projects(r5.db))

LoadRoom == db.seq_projects + LoadedCount <= SampleCount + MaxCreates + MaxLoads * LoadedCount

LoadData ==
    /\ LoadRoom
    /\ LET out == load_comprehensive_sdg_data(db)
       IN /\ db' = out.db
          /\ result' = [NoResult EXCEPT !.op = "load_comprehensive_sdg_data", !.err = out.err]
    /\ UNCHANGED <<backend, now, sessions>>

(***************************************************************************)
(* A restart of the application constructs the data-access object anew.    *)
(***************************************************************************)
Construct ==
    /\ LET out == IF backend = "sqlite" THEN Outcome("none", AtlasDB_init(db))
                  ELSE AtlasPostgreSQLDB_populate_reference_data(db)
       IN /\ db' = out.db
          /\ result' = [NoResult EXCEPT !.op = "init_db", !.err = out.err]
    /\ UNCHANGED <<backend, now, sessions>>

(***************************************************************************)
(* The seeding specification: submissions of every draft, the loader and   *)
(* restarts.                                                               *)
(***************************************************************************)
NextSeed ==
    \/ Tick
    \/ \E form \in Drafts : CreateProject(form)
    \/ LoadData
    \/ Construct

SpecSeed == Init /\ [][NextSeed]_vars

(***************************************************************************)
(* The audit-log specification: the operations that write projects or      *)
(* their history (submission, review decisions, status and bulk updates)   *)
(* interleaved with construction and the data loader.                      *)
(***************************************************************************)
HistoryCalls ==
    {<<"1", "approved", "notes", "1">>, <<"1", "rejected", "notes", "1">>,
     <<"1", "in_review", "notes", "1">>, <<"abc", "approved", "notes", "1">>}

NextHistory ==
    \/ CreateProject(BaseDraft)
    \/ \E c \in HistoryCalls : UpdateStatusPostgres(c[1], c[2], c[3], c[4])
    \/ \E id \in Range(get_pending_reviews(db)), a \in ReviewActions, n \in NotesInputs :
          handle_review_action(id, a, n)
    \/ \E updates \in BulkInputs : BulkUpdateAdapter(updates)
    \/ \E updates \in BulkInputs : BulkUpdatePostgres(updates)
    \/ LoadData
    \/ Construct

SpecHistory == Init /\ [][NextHistory]_vars

(***************************************************************************)
(* migrations.py: MigrationManager copies the SQLite database into an      *)
(* empty PostgreSQL database.  Each step works in one session; an          *)
(* exception of a flush rolls the session's transaction back, after which  *)
(* every later query and the commit raise, so the step stores nothing.     *)
(***************************************************************************)
(* _parse_datetime reads "YYYY-MM-DD HH:MM:SS" text; text of any other     *)
(* format (isoformat, with a "T") yields the current time.                 *)
parse_datetime(t, iso) == IF t = None \/ iso THEN now ELSE t

Rank(id, ids) == Cardinality({j \in ids : j <= id})

migrate_reference_data(dst) ==
    ~(Len(dst.uia_regions) < Cardinality(RegionCatalog)
        \/ Len(dst.sdgs) < Cardinality(SdgCatalog))

user_id_mapping(src, dst) ==
    [id \in UserIds(src) |-> dst.seq_users + Rank(id, UserIds(src))]

migrate_users(src, dst) ==
    LET mapping == user_id_mapping(src, dst)
        tx == [dst EXCEPT !.users = @ \cup {[id |-> mapping[u.id], email |-> u.email,
                                              contact_person |-> u.contact_person] :
                                             u \in src.users},
                          !.seq_users = @ + Cardinality(src.users)]
        refused == \E u \in src.users :
                      \/ ~EMAIL_REGEX_match(u.email)
                      \/ u.contact_person = NoneStr
                      \/ \E v \in dst.users : v.email = u.email
    IN IF refused THEN Outcome("failed", Rollback(dst, tx)) ELSE Outcome("none", tx)

(* float(x) if x else None                                                 *)
float_or_none(x) == IF x = None \/ x = 0 THEN None ELSE x

(* MigrationManager._generate_slug; the names of the model are shorter     *)
(* than the 70 characters it keeps.                                        *)
MigrationManager_generate_slug(d, project_name) ==
    SlugLoop(d, base_slug(project_name), base_slug(project_name), 1)

MigratedProject(tx, p, project_id, users) ==
    LET submitted == parse_datetime(p.created_at, p.created_at_iso)
        updated == parse_datetime(p.updated_at, p.updated_at_iso)
        row == [ProjectRow(project_id, p.project_name, p.contact_email, p.city,
                           float_or_none(p.latitude), float_or_none(p.longitude),
                           float_or_none(p.funding_needed_usd), p.brief_len,
                           p.workflow_status, None,
                           MigrationManager_generate_slug(tx, p.project_name), submitted,
                           IF p.submitted_by \in DOMAIN users
                           THEN users[p.submitted_by] ELSE None)
                  EXCEPT !.uia_region_id = p.uia_region_id,
                         !.organization_name = p.organization_name,
                         !.updated_at = None,
                         !.geolocation = IF tx.server.trigger_update_geolocation
                                         THEN <<p.latitude, p.longitude>> ELSE <<>>]
    IN IF p.workflow_status = "approved"
       THEN [row EXCEPT !.approval_date = updated, !.published_date = updated]
       ELSE row

(* NOT NULL, CHECK, UNIQUE and foreign-key constraints of the projects     *)
(* table.                                                                  *)
ProjectConstraints(tx, row) ==
    /\ row.submitted_by # None
    /\ row.uia_region_id \in Keys(tx.uia_regions)
    /\ row.organization_name # NoneStr
    /\ row.latitude # None /\ row.latitude >= LAT_MIN /\ row.latitude <= LAT_MAX
    /\ row.longitude # None /\ row.longitude >= LON_MIN /\ row.longitude <= LON_MAX
    /\ row.funding_needed_usd = None \/ row.funding_needed_usd >= 0
    /\ row.brief_len <= MAX_BRIEF_DESCRIPTION_LENGTH
    /\ EMAIL_REGEX_match(row.contact_email)
    /\ row.workflow_status \in WORKFLOW_STATUSES
    /\ \A q \in DOMAIN tx.projects : tx.projects[q].project_slug # row.project_slug
    /\ valid_workflow_dates(row)

(* The loop of migrate_projects over the SQLite rows in id order; mapping  *)
(* is project_id_mapping.                                                  *)
RECURSIVE MigrateRows(_, _, _, _, _)
MigrateRows(tx, src, ids, users, mapping) ==
    IF ids = {} THEN [err |-> "none", db |-> tx, mapping |-> mapping]
    ELSE LET id == CHOOSE i \in ids : \A j \in ids : i <= j
             project_id == tx.seq_projects + 1
             row == MigratedProject(tx, src.projects[id], project_id, users)
             tx1 == [tx EXCEPT !.projects = (project_id :> row) @@ @,
                               !.seq_projects = project_id]
         IN IF ~ProjectConstraints(tx, row)
            THEN [err |-> "failed", db |-> tx1, mapping |-> mapping]
            ELSE MigrateRows(tx1, src, ids \ {id}, users, (id :> project_id) @@ mapping)

_migrate_project_sdgs(src, dst, mapping) ==
    LET rows == {<<mapping[r[1]], r[2]>> : r \in {x \in src.project_sdgs : x[1] \in DOMAIN mapping}}
    IN IF \E r \in rows : r[2] \notin Keys(dst.sdgs) THEN dst
       ELSE [dst EXCEPT !.project_sdgs = @ \cup rows]

_migrate_project_typologies(src, dst, mapping) ==
    LET kept == SelectSeq(src.project_typologies, LAMBDA r : r.project_id \in DOMAIN mapping)
        rows == [i \in 1..Len(kept) |->
                    [project_id |-> mapping[kept[i].project_id],
                     typology |-> TYPOLOGY_CODES_get(kept[i].typology)]]
    IN IF ~NoDuplicates(rows) \/ \E i \in 1..Len(rows) : rows[i].typology \notin Keys(dst.typologies)
       THEN dst
       ELSE [dst EXCEPT !.project_typologies = @ \o rows]

category_enum(category) ==
    CASE category = "Funding & Financial" -> "funding"
      [] category = "Government & Regulatory" -> "government_regulatory"
      [] OTHER -> "other"

_migrate_project_requirements(src, dst, mapping) ==
    LET kept == SelectSeq(src.project_requirements, LAMBDA r : r.project_id \in DOMAIN mapping)
        rows == [i \in 1..Len(kept) |->
                    [project_id |-> mapping[kept[i].project_id],
                     requirement_category |-> category_enum(kept[i].requirement_category),
                     requirement_text |-> REQUIREMENT_CODES_get(kept[i].requirement_text)]]
        codes == [i \in 1..Len(rows) |-> <<rows[i].project_id, rows[i].requirement_text>>]
    IN IF ~NoDuplicates(codes)
          \/ \E i \in 1..Len(rows) : rows[i].requirement_text \notin Keys(dst.requirements)
       THEN dst
       ELSE [dst EXCEPT !.project_requirements = @ \o rows]

_migrate_project_images(src, dst, mapping) ==
    LET kept == SelectSeq(src.project_images, LAMBDA r : r.project_id \in DOMAIN mapping)
    IN [dst EXCEPT !.project_images = @ \o
          [i \in 1..Len(kept) |-> [project_id |-> mapping[kept[i].project_id],
                                   image_url |-> kept[i].image_url,
                                   display_order |-> 0]]]

_migrate_workflow_history(src, dst, mapping, users) ==
    LET kept == SelectSeq(src.history, LAMBDA h : /\ h.project_id \in DOMAIN mapping
                                                   /\ h.changed_by \in DOMAIN users)
        rows == [i \in 1..Len(kept) |->
                    HistoryEntry(mapping[kept[i].project_id], kept[i].old_status,
                                 kept[i].new_status, users[kept[i].changed_by],
                                 kept[i].reason)]
    IN IF \E i \in 1..Len(rows) :
             \/ rows[i].old_status = rows[i].new_status
             \/ rows[i].new_status \notin WORKFLOW_STATUSES
       THEN dst
       ELSE [dst EXCEPT !.history = @ \o rows]

migrate_projects(src, dst, users) ==
    LET out == MigrateRows(dst, src, DOMAIN src.projects, users, <<>>)
        d1 == _migrate_project_sdgs(src, out.db, out.mapping)
        d2 == _migrate_project_typologies(src, d1, out.mapping)
        d3 == _migrate_project_requirements(src, d2, out.mapping)
        d4 == _migrate_project_images(src, d3, out.mapping)
        d5 == _migrate_workflow_history(src, d4, out.mapping, users)
    IN IF DOMAIN src.projects = {} THEN Outcome("none", dst)
       ELSE IF out.err # "none" THEN Outcome("failed", Rollback(dst, out.db))
       ELSE Outcome("none", d5)

(* perform_full_migration: readiness, then the three steps; the first that *)
(* fails ends the migration and what the earlier steps committed stays.    *)
perform_full_migration(src, dst) ==
    LET users == migrate_users(src, dst)
        projects == migrate_projects(src, users.db, user_id_mapping(src, dst))
    IN IF DOMAIN src.projects = {} \/ DOMAIN dst.projects # {}
       THEN Outcome("not ready", dst)
       ELSE IF ~migrate_reference_data(dst) THEN Outcome("failed", dst)
       ELSE IF users.err # "none" THEN users
       ELSE projects

(* The deployment moves from SQLite to a PostgreSQL database in service;   *)
(* whatever the migration stored, the application then runs on PostgreSQL. *)
Migrate ==
    /\ backend = "sqlite"
    /\ LET out == perform_full_migration(db, PostgresInitDb)
       IN /\ db' = out.db
          /\ result' = [NoResult EXCEPT !.op = "perform_full_migration", !.err = out.err]
    /\ backend' = "postgres"
    /\ UNCHANGED <<now, sessions>>

NextMigrate ==
    \/ Tick
    \/ \E form \in {BaseDraft, [BaseDraft EXCEPT !.project_name = "Green Roof 1"]} :
          CreateProject(form)
    \/ \E id \in IdInputs : UpdateStatusDirect(id, "approved", "notes", AdminUserId)
    \/ \E c \in HistoryCalls : UpdateStatusPostgres(c[1], c[2], c[3], c[4])
    \/ \E updates \in DateInputs : BulkUpdatePostgres(updates)
    \/ LoadData
    \/ Migrate

SpecMigrate == Init /\ [][NextMigrate]_vars

(***************************************************************************)
(* Two reviewers at once.  Neither backend takes a lock when it reads the  *)
(* current status: sqlite3 opens its transaction at the UPDATE, and the    *)
(* PostgreSQL session reads under READ COMMITTED without FOR UPDATE.  A    *)
(* call is therefore two steps, the read and the committed writes, and the *)
(* steps of two connections interleave.  The writes of one call are one    *)
(* step: SQLite holds the write lock from the UPDATE to the commit, and a  *)
(* PostgreSQL flush holds the row lock until its commit, so that a second  *)
(* writer waits and then applies its own UPDATE to the committed row.      *)
(***************************************************************************)
RaceCalls ==
    IF backend = "sqlite"
    THEN {<<SampleCount + 1, "approved", "notes", AdminUserId>>,
          <<SampleCount + 1, "rejected", "notes", AdminUserId>>,
          <<SampleCount + 1, "in_review", "notes", None>>}
    ELSE {<<"1", "approved", "notes", "1">>,
          <<"1", "rejected", "notes", "1">>,
          <<"1", "changes_requested", "notes", "1">>}

UpdateStatusRead(c, project_id, new_status, reason, reviewer_id) ==
    /\ sessions[c].pc = "idle"
    /\ LET id == IF backend = "sqlite" THEN project_id ELSE ParseId(project_id)
           reviewer == IF backend = "sqlite" THEN reviewer_id
                       ELSE IF TruthyStr(reviewer_id) THEN ParseId(reviewer_id) ELSE None
       IN IF id \notin DOMAIN db.projects
          THEN /\ sessions' = sessions
               /\ result' = CallResult("update_project_status",
                                       IF backend = "sqlite" THEN "TypeError" ELSE "ValueError",
                                       id, NoneStr, new_status, reason, reviewer, None)
          ELSE /\ sessions' = [sessions EXCEPT ![c] =
                                 [pc |-> "writes", project_id |-> id,
                                  old_status |-> db.projects[id].workflow_status,
                                  new_status |-> new_status, reason |-> reason,
                                  reviewer_id |-> reviewer]]
               /\ result' = [NoResult EXCEPT !.op = "read_status", !.pid = id]
    /\ UNCHANGED <<backend, now, db>>

UpdateStatusWrite(c) ==
    /\ sessions[c].pc = "writes"
    /\ HistoryRoom
    /\ LET s == sessions[c]
           out == IF backend = "sqlite"
                  THEN AtlasDB_update_writes(db, s.project_id, s.old_status,
                                             s.new_status, s.reason, s.reviewer_id)
                  ELSE AtlasPostgreSQLDB_update_flush(db, s.project_id, s.old_status,
                                                      s.new_status, s.reason, s.reviewer_id)
       IN /\ db' = out.db
          /\ result' = CallResult("update_project_status", out.err, s.project_id,
                                  s.old_status, s.new_status, s.reason, s.reviewer_id, None)
    /\ sessions' = [sessions EXCEPT ![c] = Idle]
    /\ UNCHANGED <<backend, now>>

NextRace ==
    \/ \E form \in WorkflowDrafts : CreateProject(form)
    \/ \E c \in Connections, u \in RaceCalls : UpdateStatusRead(c, u[1], u[2], u[3], u[4])
    \/ \E c \in Connections : UpdateStatusWrite(c)

SpecRace == Init /\ [][NextRace]_vars

(***************************************************************************)
(* The loader statement by statement, beside readers.  Each loader         *)
(* function opens a connection, and sqlite3 begins a transaction at its    *)
(* first DELETE or INSERT and ends it at conn.commit(): the session keeps  *)
(* the database as its open transaction has written it (tx), and the       *)
(* database the other connections read changes when the transaction        *)
(* commits.  While a transaction is open no other connection writes (the   *)
(* SQLite write lock).                                                     *)
(***************************************************************************)
(* Fault model: a connection in autocommit mode (isolation_level = None),  *)
(* where every statement is committed as it executes.                      *)
ExecuteAutocommit(committed, tx) == tx

(* What the other connections find in the database after a statement has   *)
(* executed inside an open transaction.                                    *)
Execute(committed, tx) == committed

NoOpenTransaction == \A c \in Connections : sessions[c].pc \notin {"insert", "commit"}

Loading(pc, table, k, tx) == [pc |-> pc, table |-> table, k |-> k, tx |-> tx]

Between(table) == Loading("between", table, 0, <<>>)

Rows(table) == IF table = "uia_regions" THEN regions ELSE sdgs

TableOf(d, table) == IF table = "uia_regions" THEN d.uia_regions ELSE d.sdgs

WithTable(d, table, tab) ==
    IF table = "uia_regions" THEN [d EXCEPT !.uia_regions = tab] ELSE [d EXCEPT !.sdgs = tab]

LoaderResult(step, err) ==
    [NoResult EXCEPT !.op = "load_comprehensive_sdg_data", !.err = err, !.reason = step]

(* load_comprehensive_sdg_data up to the first catalog: AtlasDB(), then     *)
(* clear_existing_data, each committed.                                    *)
LoaderStart(c) ==
    /\ backend = "sqlite"
    /\ sessions[c].pc = "idle"
    /\ \A o \in Connections : sessions[o].pc = "idle"
    /\ LoadRoom
    /\ db' = clear_existing_data(AtlasDB_init(db))
    /\ sessions' = [sessions EXCEPT ![c] = Between("uia_regions")]
    /\ result' = LoaderResult("clear_existing_data", "none")
    /\ UNCHANGED <<backend, now>>

(* cursor.execute("DELETE FROM <table>") of load_uia_regions and of         *)
(* load_sdgs_data.                                                         *)
LoaderDelete(c) ==
    /\ sessions[c].pc = "between"
    /\ sessions[c].table \in {"uia_regions", "sdgs"}
    /\ NoOpenTransaction
    /\ LET table == sessions[c].table
           tx == WithTable(db, table, <<>>)
       IN /\ sessions' = [sessions EXCEPT ![c] = Loading("insert", table, 1, tx)]
          /\ db' = Execute(db, tx)
          /\ result' = LoaderResult("DELETE FROM " \o table, "none")
    /\ UNCHANGED <<backend, now>>

(* One INSERT of the loop over the rows; a refused row raises, the          *)
(* connection is abandoned and the loader ends.                            *)
LoaderInsert(c) ==
    /\ sessions[c].pc = "insert"
    /\ LET s == sessions[c]
           ins == InsertRows(TableOf(s.tx, s.table), <<Rows(s.table)[s.k]>>,
                             s.table = "uia_regions")
           tx == WithTable(s.tx, s.table, ins.tab)
       IN IF ins.err # "none"
          THEN /\ sessions' = [sessions EXCEPT ![c] = Idle]
               /\ db' = Rollback(db, tx)
               /\ result' = LoaderResult("INSERT INTO " \o s.table, ins.err)
          ELSE /\ sessions' = [sessions EXCEPT ![c] =
                                 Loading(IF s.k = Len(Rows(s.table)) THEN "commit" ELSE "insert",
                                         s.table, s.k + 1, tx)]
               /\ db' = Execute(db, tx)
               /\ result' = LoaderResult("INSERT INTO " \o s.table, "none")
    /\ UNCHANGED <<backend, now>>

(* conn.commit() of load_uia_regions and of load_sdgs_data.                 *)
LoaderCommit(c) ==
    /\ sessions[c].pc = "commit"
    /\ db' = sessions[c].tx
    /\ sessions' = [sessions EXCEPT ![c] =
                      Between(IF sessions[c].table = "uia_regions" THEN "sdgs" ELSE "typologies")]
    /\ result' = LoaderResult("commit " \o sessions[c].table, "none")
    /\ UNCHANGED <<backend, now>>

(* The rest of the loader: load_typologies_data, load_requirements_data    *)
(* and load_real_world_projects, which write no region and no SDG.         *)
LoaderRest(c) ==
    /\ sessions[c].pc = "between"
    /\ sessions[c].table = "typologies"
    /\ NoOpenTransaction
    /\ LET r4 == load_typologies_data(db)
           r5 == load_requirements_data(r4.db)
       IN CASE r4.err # "none" -> db' = r4.db /\ result' = LoaderResult("load_typologies_data", r4.err)
            [] r5.err # "none" -> db' = r5.db /\ result' = LoaderResult("load_requirements_data", r5.err)
            [] OTHER -> /\ db' = load_real_world_projects(r5.db)
                        /\ result' = LoaderResult("load_real_world_projects", "none")
    /\ sessions' = [sessions EXCEPT ![c] = Idle]
    /\ UNCHANGED <<backend, now>>

(* A reader on another connection: the regions and the SDGs that the joins *)
(* of the listings and of get_project_by_id resolve at this moment.        *)
ReadCatalog(c) ==
    /\ sessions[c].pc = "idle"
    /\ result' = [NoResult EXCEPT !.op = "read_catalog",
                     !.ret = <<{k \in RegionCatalog : region_name(db, k) # NoneStr},
                               Keys(db.sdgs) \cap SdgCatalog>>]
    /\ UNCHANGED <<backend, now, db, sessions>>

(* A restart of the application beside the loader: populate_reference_data *)
(* waits for the write lock.                                               *)
ConstructBeside ==
    /\ NoOpenTransaction
    /\ Construct

NextCatalog ==
    \/ \E c \in Connections : LoaderStart(c)
    \/ \E c \in Connections : LoaderDelete(c)
    \/ \E c \in Connections : LoaderInsert(c)
    \/ \E c \in Connections : LoaderCommit(c)
    \/ \E c \in Connections : LoaderRest(c)
    \/ \E c \in Connections : ReadCatalog(c)
    \/ ConstructBeside
    \/ \E form \in WorkflowDrafts : CreateProject(form)

SpecCatalog == Init /\ [][NextCatalog]_vars

(***************************************************************************)
(* Reference codes.  On SQLite two submissions may be in progress at once: *)
(* a create is the count of the projects and then its transaction, and the *)
(* steps of two connections interleave.  On PostgreSQL the code is derived *)
(* from the identifier after the commit and no step reads other projects,  *)
(* so a create is one step; what uuid4 draws is not known in advance.      *)
(***************************************************************************)
InitReference ==
    /\ backend \in {"sqlite", "postgres"}
    /\ now = 1
    /\ db \in IF backend = "sqlite" THEN {SqliteInitDb}
              ELSE {[PostgresInitDb EXCEPT !.uuid4 = u] : u \in {"distinct", "shared"}}
    /\ result = NoResult
    /\ sessions = NoSessions

Submitted(d) == {p \in DOMAIN d.projects : d.projects[p].workflow_status = "submitted"}

ReferenceRoom == db.seq_projects < MaxId /\ Cardinality(Submitted(db)) <= MaxCreates

UNIQUE_reference_id == "UNIQUE constraint failed: projects.reference_id"

CreateCount(c, form) ==
    /\ backend = "sqlite"
    /\ sessions[c].pc = "idle"
    /\ sessions' = [sessions EXCEPT ![c] =
                      [pc |-> "create_writes", form |-> form,
                       count |-> Cardinality(DOMAIN db.projects)]]
    /\ result' = [NoResult EXCEPT !.op = "count_projects"]
    /\ UNCHANGED <<backend, now, db>>

CreateWrites(c) ==
    /\ sessions[c].pc = "create_writes"
    /\ ReferenceRoom
    /\ LET s == sessions[c]
           out == AtlasDB_create_writes(db, s.form, s.count)
           taken == \E q \in DOMAIN db.projects : db.projects[q].reference_id = s.count + 1
       IN /\ db' = out.db
          /\ result' = [CallResult("create_project", out.err, out.pid, NoneStr, NoneStr,
                                   IF taken THEN UNIQUE_reference_id ELSE NoneStr,
                                   None, out.ret)
                        EXCEPT !.form = <<s.form>>]
    /\ sessions' = [sessions EXCEPT ![c] = Idle]
    /\ UNCHANGED <<backend, now>>

CreatePostgres(form) ==
    /\ backend = "postgres"
    /\ ReferenceRoom
    /\ LET out == AtlasPostgreSQLDB_create_project(db, form)
       IN /\ db' = out.db
          /\ result' = [CallResult("create_project", out.err, out.pid, NoneStr,
                                   NoneStr, NoneStr, None, out.ret)
                        EXCEPT !.form = <<form>>]
    /\ UNCHANGED <<backend, now, sessions>>

NextReference ==
    \/ \E c \in Connections, form \in WorkflowDrafts : CreateCount(c, form)
    \/ \E c \in Connections : CreateWrites(c)
    \/ \E form \in WorkflowDrafts : CreatePostgres(form)
    \/ LoadData
    \/ Construct

SpecReference == InitReference /\ [][NextReference]_vars

(***************************************************************************)
(* The workflow contract.  TransitionTable is the table of allowed         *)
(* <<current, target>> pairs; a reason is required for the targets         *)
(* rejected and changes_requested.                                         *)
(***************************************************************************)
TransitionTable ==
    {<<"submitted", "in_review">>, <<"submitted", "approved">>,
     <<"submitted", "rejected">>, <<"submitted", "changes_requested">>,
     <<"in_review", "approved">>, <<"in_review", "rejected">>,
     <<"in_review", "changes_requested">>,
     <<"changes_requested", "submitted">>, <<"changes_requested", "in_review">>,
     <<"approved", "in_review">>}

ReasonRequired(new_status) == new_status \in {"rejected", "changes_requested"}

ReasonGiven(reason) == reason \notin {NoneStr, "", " "}

ProjectHistory(d, pid) == SelectSeq(d.history, LAMBDA h : h.project_id = pid)

ProjectReviews(d, pid) == SelectSeq(d.reviews, LAMBDA r : r.project_id = pid)

Live(d, pid) == pid \in DOMAIN d.projects /\ d.projects[pid].deleted_at = None

(* The step is a call of update_project_status on a project that exists.   *)
UpdateCall ==
    /\ result'.op = "update_project_status"
    /\ result'.pid \in DOMAIN db.projects

(* The call returned normally and took effect.                             *)
UpdateSucceeded == UpdateCall /\ result'.err = "none" /\ db' # db

(***************************************************************************)
(* C1.  Workflow legality: update_project_status on a pair <<current,      *)
(* target>> outside the transition table raises InvalidTransitionError,    *)
(* leaves the status unchanged and appends no history entry; on a pair of  *)
(* the table, with a reason where one is required, it succeeds and appends *)
(* exactly one history entry.                                              *)
(***************************************************************************)
C1_WorkflowLegality ==
    [][UpdateCall =>
         LET pid == result'.pid
             old == result'.old
             new == result'.new_status
         IN IF <<old, new>> \notin TransitionTable
            THEN /\ result'.err = "InvalidTransitionError"
                 /\ db'.projects[pid].workflow_status = old
                 /\ Len(db'.history) = Len(db.history)
            ELSE (Live(db, pid) /\ (ReasonRequired(new) => ReasonGiven(result'.reason)))
                 => /\ result'.err = "none"
                    /\ db'.projects[pid].workflow_status = new
                    /\ Len(ProjectHistory(db', pid)) = Len(ProjectHistory(db, pid)) + 1]_vars

(***************************************************************************)
(* C2.  Reason enforcement: update_project_status to rejected or           *)
(* changes_requested with an empty or absent reason fails with             *)
(* ValidationError, changing neither the status nor the history; the same  *)
(* transition from an allowed current status with a non-empty reason       *)
(* succeeds.                                                               *)
(***************************************************************************)
C2_ReasonEnforcement ==
    [][(UpdateCall /\ ReasonRequired(result'.new_status)) =>
         LET pid == result'.pid
             old == result'.old
             new == result'.new_status
         IN IF ~ReasonGiven(result'.reason)
            THEN /\ result'.err = "ValidationError"
                 /\ db'.projects[pid].workflow_status = old
                 /\ db'.history = db.history
            ELSE (Live(db, pid) /\ <<old, new>> \in TransitionTable)
                 => /\ result'.err = "none"
                    /\ db'.projects[pid].workflow_status = new]_vars

(***************************************************************************)
(* C3.  Audit-trail count: a successful create_project appends exactly one *)
(* history entry, of the created project, with no prior status and the new *)
(* status submitted; a successful update_project_status appends exactly    *)
(* one entry of its project.  By induction a project's history has one     *)
(* entry more than the successful status updates on it.                    *)
(***************************************************************************)
C3_AuditTrailCount ==
    [][/\ (result'.op = "create_project" /\ result'.err = "none") =>
            /\ Len(db'.history) = Len(db.history) + 1
            /\ LET entry == db'.history[Len(db'.history)]
               IN /\ entry.project_id = result'.pid
                  /\ entry.old_status = NoneStr
                  /\ entry.new_status = "submitted"
       /\ UpdateSucceeded =>
            /\ Len(db'.history) = Len(db.history) + 1
            /\ Len(ProjectHistory(db', result'.pid))
                 = Len(ProjectHistory(db, result'.pid)) + 1]_vars

(***************************************************************************)
(* C4.  Publication timestamps (the PostgreSQL backend, which alone has    *)
(* the columns): a transition into approved sets approval_date and         *)
(* published_date to the current time only where they are unset, a         *)
(* transition out of approved clears published_date, and published_date is *)
(* set only while the project is approved.                                 *)
(***************************************************************************)
C4_PublicationTimestamps ==
    [][/\ \A id \in DOMAIN db'.projects :
            db'.projects[id].published_date # None
              => db'.projects[id].workflow_status = "approved"
       /\ (backend = "postgres" /\ UpdateSucceeded) =>
            LET before == db.projects[result'.pid]
                after == db'.projects[result'.pid]
            IN /\ result'.new_status = "approved" =>
                    /\ after.approval_date = IF before.approval_date = None THEN now
                                             ELSE before.approval_date
                    /\ after.published_date = IF before.published_date = None THEN now
                                              ELSE before.published_date
               /\ (before.workflow_status = "approved" /\ result'.new_status # "approved")
                    => after.published_date = None]_vars

(***************************************************************************)
(* Submissions.  The step is a create_project call, direct or through the  *)
(* submission form; it failed when it raised or displayed an error.        *)
(***************************************************************************)
CreateCall == result'.op \in {"create_project", "handle_form_submission"}

CreateFailed == result'.err # "none" \/ result'.errors # <<>>

RowsOf(tab, pid) == SelectSeq(tab, LAMBDA r : r.project_id = pid)

AllIdTexts == {ToString(n) : n \in 1..MaxId} \cup {"abc"}

C6_CreateValidation ==
    [][(CreateCall /\ ViolatedFields(result'.form[1]) # {}) =>
         /\ db' = db
         /\ IF result'.op = "create_project"
            THEN result'.err = "ValidationError"
            ELSE \A f \in ViolatedFields(result'.form[1]) :
                    MessageOf(f) \in Range(result'.errors)]_vars

(***************************************************************************)
(* C7.  update_project_status on an id that no project has, or that a      *)
(* soft-deleted project has, fails with an error surfaced to the caller    *)
(* (NotFoundError; the class is not compared here) and changes nothing: no *)
(* status, no history entry, no review.                                    *)
(***************************************************************************)
C7_UpdateUnknownOrDeleted ==
    [][(/\ result'.op = "update_project_status"
        /\ result'.pid # None
        /\ ~Live(db, result'.pid)) =>
         /\ result'.err # "none"
         /\ db' = db]_vars

(***************************************************************************)
(* C8.  get_project_by_id returns nothing for an id that is malformed,     *)
(* unknown or of a soft-deleted project, and the full record with all of   *)
(* its stored associations for every other id.                             *)
(***************************************************************************)
C8_GetById ==
    \A id \in AllIdTexts :
       LET n == ParseId(id)
           got == get_project_by_id(db, id)
       IN IF n = None \/ ~Live(db, n)
          THEN got = <<>>
          ELSE /\ Len(got) = 1
               /\ got[1].project = db.projects[n]
               /\ got[1].sdgs = {q[2] : q \in {r \in db.project_sdgs : r[1] = n}}
               /\ got[1].typologies = RowsOf(db.project_typologies, n)
               /\ got[1].requirements = RowsOf(db.project_requirements, n)
               /\ got[1].images = RowsOf(db.project_images, n)

(***************************************************************************)
(* C9.  Soft delete: a project whose deleted_at is set is not returned by  *)
(* get_project_by_id and is in no filtered listing, published listing or   *)
(* pending-review listing.                                                 *)
(***************************************************************************)
C9_SoftDelete ==
    \A n \in DOMAIN db.projects :
       db.projects[n].deleted_at # None =>
          /\ get_project_by_id(db, ToString(n)) = <<>>
          /\ n \notin get_all_published_projects(db)
          /\ n \notin Range(get_pending_reviews(db))
          /\ \A sdg \in SdgFilters, city \in CityFilters :
                n \notin get_projects_by_filters(db, Filter(NoneStr, sdg, city, NoneStr, NoKwargs))

(***************************************************************************)
(* C10.  Only approved records are public: every project that              *)
(* get_all_published_projects or get_projects_by_filters returns has       *)
(* workflow status approved, whatever calls came before.                   *)
(***************************************************************************)
C10_OnlyApprovedPublic ==
    /\ \A id \in get_all_published_projects(db) :
          db.projects[id].workflow_status = "approved"
    /\ \A sdg \in SdgFilters, city \in CityFilters :
          \A id \in get_projects_by_filters(db, Filter(NoneStr, sdg, city, NoneStr, NoKwargs)) :
             db.projects[id].workflow_status = "approved"

(* A project was approved and then unpublished; the listings return other  *)
(* projects and not this one.                                              *)
C10_Witness ==
    \E n \in DOMAIN db.projects :
       /\ db.projects[n].workflow_status = "in_review"
       /\ \E i \in 1..Len(db.history) :
             db.history[i].project_id = n /\ db.history[i].new_status = "approved"
       /\ get_all_published_projects(db) # {}
       /\ n \notin get_all_published_projects(db)
       /\ n \notin get_projects_by_filters(db, Filter(NoneStr, None, NoneStr, NoneStr, NoKwargs))

(***************************************************************************)
(* C11  Filter conjunction: the projects returned for two filter options   *)
(* supplied together are exactly those returned for each option alone,     *)
(* on every data set.                                                      *)
(***************************************************************************)
C11_FilterConjunction ==
    (result.op = "get_projects_by_filters" /\ Len(result.form) = 2) =>
        result.ret[3] = result.ret[1] \cap result.ret[2]

(***************************************************************************)
(* C12  Review queue: get_pending_reviews returns exactly the non-deleted  *)
(* projects whose status is submitted, in_review or changes_requested,     *)
(* the project submitted earlier before the one submitted later.           *)
(***************************************************************************)
SubmittedAt(d, id) ==
    IF backend = "sqlite" THEN d.projects[id].created_at
    ELSE d.projects[id].submission_date

C12_ReviewQueue ==
    LET queue == get_pending_reviews(db)
    IN /\ Range(queue) = {id \in DOMAIN db.projects :
                            /\ db.projects[id].workflow_status \in PENDING_STATUSES
                            /\ db.projects[id].deleted_at = None}
       /\ \A i \in 1..Len(queue) : \A j \in i..Len(queue) :
              SubmittedAt(db, queue[i]) <= SubmittedAt(db, queue[j])

(***************************************************************************)
(* C13  Idempotent seeding: whatever the database holds, and on a fresh    *)
(* one, running a catalog seeding a second time leaves the regions, SDGs,  *)
(* typologies and requirements as the first run left them, and after a     *)
(* seeding no catalog holds two rows with one key.                         *)
(***************************************************************************)
Catalogs(d) == <<d.uia_regions, d.sdgs, d.typologies, d.requirements>>

NoDuplicateKeys(tab) ==
    \A i \in 1..Len(tab) : \A j \in 1..Len(tab) : tab[i].key = tab[j].key => i = j

Seedings == IF backend = "sqlite" THEN 1..5 ELSE {6}

Seeding(k, d) ==
    CASE k = 1 -> populate_reference_data(d)
      [] k = 2 -> load_uia_regions(d).db
      [] k = 3 -> load_sdgs_data(d).db
      [] k = 4 -> load_typologies_data(d).db
      [] k = 5 -> load_requirements_data(d).db
      [] OTHER -> AtlasPostgreSQLDB_populate_reference_data(d).db

C13_IdempotentSeeding ==
    \A d \in {db, EmptyDb} : \A k \in Seedings :
        LET once == Catalogs(Seeding(k, d))
            twice == Catalogs(Seeding(k, Seeding(k, d)))
        IN /\ twice = once
           /\ \A c \in 1..Len(once) : NoDuplicateKeys(once[c])

(* The constructor has run again on a database it had seeded before.       *)
C13_Witness ==
    /\ result.op = "init_db"
    /\ result.err = "none"
    /\ Keys(db.uia_regions) = RegionCatalog /\ Len(db.uia_regions) = Cardinality(RegionCatalog)
    /\ Keys(db.sdgs) = SdgCatalog /\ Len(db.sdgs) = Cardinality(SdgCatalog)

(***************************************************************************)
(* C14  Rejected is terminal: a project whose workflow status is rejected  *)
(* is still rejected after every later step.                               *)
(***************************************************************************)
C14_RejectedTerminal ==
    [][\A pid \in DOMAIN db.projects :
          db.projects[pid].workflow_status = "rejected" =>
             /\ pid \in DOMAIN db'.projects
             /\ db'.projects[pid].workflow_status = "rejected"]_vars

(***************************************************************************)
(* C15  Backend equivalence: on the same data, none of it soft-deleted, no *)
(* more of it than a query may return and its geolocation column           *)
(* maintained, the SQLite adapter and the PostgreSQL backend return the    *)
(* same set of projects for the same filter, near and bounds included.     *)
(***************************************************************************)
EquivalenceFilters ==
    SingleOptionFilters \cup {[NoFilter EXCEPT !.kwargs.near = QueryPoint,
                                               !.kwargs.radius_km = 100]}

C15_BackendEquivalence ==
    (/\ db.seq_projects <= MAX_QUERY_RESULTS
     /\ db.server.trigger_update_geolocation
     /\ \A id \in DOMAIN db.projects : db.projects[id].deleted_at = None)
    => \A f \in EquivalenceFilters :
          AtlasDBAdapter_get_projects_by_filters(db, f.region, f.sdg, f.city,
                                                 f.funded_by, f.kwargs)
          = AtlasPostgreSQLDB_get_projects_by_filters(db, f.region, f.sdg, f.city,
                                                      f.funded_by, f.kwargs)

(***************************************************************************)
(* C16  Radius clamp: every project a PostgreSQL radius query returns,     *)
(* through get_projects_near_location or through get_projects_by_filters   *)
(* with near_lat, near_lon and radius_km, lies within                      *)
(* min(radius_km, MAX_SEARCH_RADIUS_KM) kilometres of the query point.     *)
(***************************************************************************)
WithinClampedRadius(ids, radius_km) ==
    \A id \in ids :
        DistanceKm(db.projects[id].geolocation, QueryPoint)
            <= Min(radius_km, MAX_SEARCH_RADIUS_KM)

C16_RadiusClamp ==
    /\ (backend = "postgres" /\ result.op = "get_projects_near_location") =>
           WithinClampedRadius(result.ret, result.form[1])
    /\ (/\ backend = "postgres" /\ result.op = "get_projects_by_filters"
        /\ Len(result.form) = 1 /\ result.form[1].kwargs.radius_km # None) =>
           WithinClampedRadius(result.ret[1], result.form[1].kwargs.radius_km)

(***************************************************************************)
(* C17  History immutability: no step of the system (create, status        *)
(* update, bulk update, construction, data loading and clearing) updates   *)
(* or deletes a workflow history entry: the history table before the step  *)
(* is a prefix of the table after it, and so is every project's history.   *)
(***************************************************************************)
IsPrefix(s, t) == Len(s) <= Len(t) /\ SubSeq(t, 1, Len(s)) = s

C17_HistoryImmutable ==
    [][/\ IsPrefix(db.history, db'.history)
       /\ \A pid \in 1..MaxId :
              IsPrefix(ProjectHistory(db, pid), ProjectHistory(db', pid))]_vars

(* The loader has cleared the projects and the history of a cleared        *)
(* project is still there.                                                 *)
C17_Witness ==
    /\ result.op = "load_comprehensive_sdg_data" /\ result.err = "none"
    /\ \E i \in 1..Len(db.history) : db.history[i].project_id \notin DOMAIN db.projects

(***************************************************************************)
(* C18  No error is swallowed: a call of create_project,                   *)
(* update_project_status or bulk_update_projects that returns normally has *)
(* applied something; a call that applied nothing (malformed or unknown    *)
(* id, malformed reviewer id, storage failure) has raised an error.        *)
(***************************************************************************)
WritingCalls == {"create_project", "update_project_status", "bulk_update_projects"}

C18_NoErrorSwallowed ==
    [][(result'.op \in WritingCalls /\ result'.err = "none") => db' # db]_vars

(***************************************************************************)
(* C19  Workflow date ordering: in every reachable state every project     *)
(* that has an approval date has it at or after its submission date, and   *)
(* every project that has both a published and an approval date has the    *)
(* published date at or after the approval date, whatever creates,         *)
(* approvals, unpublishings, re-approvals, bulk updates and migration from *)
(* SQLite came before.                                                     *)
(***************************************************************************)
C19_WorkflowDateOrdering ==
    \A pid \in DOMAIN db.projects :
        LET p == db.projects[pid]
        IN /\ p.approval_date # None => p.approval_date >= p.submission_date
           /\ (p.approval_date # None /\ p.published_date # None) =>
                 p.published_date >= p.approval_date

(* A migrated project has been unpublished and approved again, later than  *)
(* it was submitted.                                                       *)
C19_Witness ==
    /\ backend = "postgres"
    /\ Cardinality(DOMAIN db.projects) >= SampleCount
    /\ result.op = "update_project_status" /\ result.err = "none"
    /\ \E pid \in DOMAIN db.projects :
          /\ db.projects[pid].workflow_status = "approved"
          /\ db.projects[pid].approval_date > db.projects[pid].submission_date
          /\ Len(ProjectHistory(db, pid)) >= 2

(***************************************************************************)
(* C20  Slug uniqueness: every stored project has a slug, assigned by      *)
(* create (or by the migration) from its name, and no two projects share   *)
(* one, after any sequence of creates, several of the same name included.  *)
(***************************************************************************)
C20_SlugUniqueness ==
    \A p \in DOMAIN db.projects :
        /\ db.projects[p].project_slug # NoneStr
        /\ \A q \in DOMAIN db.projects :
              db.projects[p].project_slug = db.projects[q].project_slug => p = q

(***************************************************************************)
(* C21  User resolution.  After every successful create there is exactly   *)
(* one user per distinct email, the submitter reference of every stored    *)
(* project is the user whose email is that project's contact email, a user *)
(* is added only when the contact email was unknown, and no user that      *)
(* existed before the call is changed by it.                               *)
(***************************************************************************)
UserOfEmail(d, email) == {u \in d.users : u.email = email}

SubmitterMatchesContact(d, p) ==
    \E u \in UserOfEmail(d, d.projects[p].contact_email) : u.id = d.projects[p].submitted_by

C22_NoStaleStatusWrite ==
    [][(result'.op = "update_project_status" /\ result'.err = "none" /\ db' # db) =>
          result'.old = StatusOf(db, result'.pid)]_vars

(***************************************************************************)
(* C23  All-or-nothing status update.  A call of update_project_status     *)
(* either leaves the database exactly as it was, or returns normally with  *)
(* the new status stored, one history entry added for it and, when a       *)
(* reviewer is given, one review record added; a call that raises has      *)
(* changed nothing.                                                        *)
(***************************************************************************)
C23_AllOrNothingUpdate ==
    [][UpdateCall =>
         LET pid == result'.pid
             new == result'.new_status
         IN /\ result'.err # "none" => db' = db
            /\ \/ db' = db
               \/ /\ db'.projects[pid].workflow_status = new
                  /\ Len(db'.history) = Len(db.history) + 1
                  /\ IsPrefix(db.history, db'.history)
                  /\ db'.history[Len(db'.history)].project_id = pid
                  /\ db'.history[Len(db'.history)].new_status = new
                  /\ IF Truthy(result'.reviewer)
                     THEN /\ Len(db'.reviews) = Len(db.reviews) + 1
                          /\ IsPrefix(db.reviews, db'.reviews)
                          /\ db'.reviews[Len(db'.reviews)].project_id = pid
                          /\ db'.reviews[Len(db'.reviews)].review_status = new
                     ELSE db'.reviews = db.reviews]_vars

(* The review record of a call was refused by its status constraint after  *)
(* the status and the history entry had been written in the transaction.   *)
C23_Witness ==
    /\ result.op = "update_project_status"
    /\ result.err = "IntegrityError"
    /\ result.pid \in DOMAIN db.projects
    /\ Truthy(result.reviewer)
    /\ result.new_status \in WORKFLOW_STATUSES \ REVIEW_STATUSES
    /\ db.projects[result.pid].workflow_status = result.old
    /\ result.old # result.new_status

(***************************************************************************)
(* C24  Seeding concurrent with reads.  Whatever statement the loader or a *)
(* restart has reached, a reader on another connection resolves all five   *)
(* regions and all seventeen SDGs: it never finds a catalog empty or       *)
(* partly filled.                                                          *)
(***************************************************************************)
C24_CatalogCompleteForReaders ==
    result.op = "read_catalog" => result.ret = <<RegionCatalog, SdgCatalog>>

(* A read made while the loader's transaction has deleted a catalog and     *)
(* not yet inserted all of its rows.                                       *)
C24_Witness ==
    /\ result.op = "read_catalog"
    /\ \E c \in Connections :
          /\ sessions[c].pc = "insert"
          /\ Len(TableOf(sessions[c].tx, sessions[c].table)) < Len(Rows(sessions[c].table))

(***************************************************************************)
(* C25  History chain consistency.  The history entries of every project,  *)
(* in insertion order, form a chain: the prior status of an entry is the   *)
(* new status of the entry before it, no entry has equal prior and new     *)
(* status, and the new status of the last entry is the project's current   *)
(* workflow status.                                                        *)
(***************************************************************************)
Chained(h) == \A i \in 2..Len(h) : h[i].old_status = h[i - 1].new_status

C25_HistoryChain ==
    \A pid \in DOMAIN db.projects :
       LET h == ProjectHistory(db, pid)
       IN /\ Chained(h)
          /\ \A i \in 1..Len(h) : h[i].old_status # h[i].new_status
          /\ h # <<>> => h[Len(h)].new_status = db.projects[pid].workflow_status

(***************************************************************************)
(* C26  Reference-code uniqueness.  The reference code that a successful   *)
(* create returns is the code of no other stored project, and no create    *)
(* fails because the code it generated was already taken, after any        *)
(* sequence of creates, sample seeding and deletions and under two         *)
(* concurrent creates.                                                     *)
(***************************************************************************)
ReferenceOf(d, q) ==
    IF backend = "sqlite" THEN d.projects[q].reference_id ELSE uuid_head(d, q)

C26_ReferenceUniqueness ==
    [][CreateCall =>
         /\ result'.pid # None =>
               \A q \in DOMAIN db'.projects \ {result'.pid} :
                  ReferenceOf(db', q) # result'.ret
         /\ ~(result'.err = "IntegrityError" /\ result'.reason = UNIQUE_reference_id)]_vars

(***************************************************************************)
(* C27  Publish / unpublish visibility.  In every state the published      *)
(* listing and the pending-review listing are disjoint and every project   *)
(* that is neither deleted nor rejected is in exactly one of them; a       *)
(* successful unpublish (approved -> in_review) takes the project out of   *)
(* the published listing and into the pending listing in the same step.    *)
(***************************************************************************)
C27_ListingPartition ==
    [](LET published == get_all_published_projects(db)
           pending == Range(get_pending_reviews(db))
       IN /\ published \cap pending = {}
          /\ \A pid \in DOMAIN db.projects :
                (Live(db, pid) /\ db.projects[pid].workflow_status # "rejected")
                   => pid \in published \cup pending)
    /\ [][(UpdateSucceeded /\ result'.old = "approved" /\ result'.new_status = "in_review") =>
            /\ result'.pid \in get_all_published_projects(db)
            /\ result'.pid \notin Range(get_pending_reviews(db))
            /\ result'.pid \notin get_all_published_projects(db')
            /\ result'.pid \in Range(get_pending_reviews(db'))]_vars

(* An approved project has just been taken back to in_review.               *)
C27_Witness ==
    /\ result.op = "update_project_status"
    /\ result.err = "none"
    /\ result.old = "approved"
    /\ result.new_status = "in_review"
    /\ result.pid \in Range(get_pending_reviews(db))

(***************************************************************************)
(* C28  Admin metric consistency.  In every state the pending_reviews      *)
(* figure of get_admin_metrics is the number of projects that              *)
(* get_pending_reviews returns, and total_published the number that        *)
(* get_all_published_projects returns.                                     *)
(***************************************************************************)
C28_AdminMetrics ==
    /\ get_admin_metrics(db).pending_reviews = Len(get_pending_reviews(db))
    /\ get_admin_metrics(db).total_published = Cardinality(get_all_published_projects(db))

(***************************************************************************)
(* C29  Bulk update count.  bulk_update_projects returns the number of     *)
(* entries of its input whose status change is applied and persisted: an   *)
(* entry whose project id is missing, malformed or unknown, or whose       *)
(* update failed, is not counted, and an entry after a failing one is      *)
(* treated as it is when it is submitted alone.  An entry that names no    *)
(* status may or may not be counted.                                       *)
(***************************************************************************)
StatusApplied(before, after, update) ==
    LET id == ParseId(get(update.project_id))
    IN /\ update.workflow_status # Absent
       /\ id \in DOMAIN before.projects
       /\ id \in DOMAIN after.projects
       /\ after.projects[id].workflow_status = update.workflow_status

OtherApplied(before, update) ==
    /\ update.workflow_status = Absent
    /\ ParseId(get(update.project_id)) \in DOMAIN before.projects

bulk_update_projects(d, updates) ==
    IF backend = "sqlite" THEN AtlasDBAdapter_bulk_update_projects(d, updates, 0)
    ELSE AtlasPostgreSQLDB_bulk_update_projects(d, updates)

BulkCountExact(updates) ==
    LET applied == Cardinality({k \in 1..Len(updates) : StatusApplied(db, db', updates[k])})
        other == Cardinality({k \in 1..Len(updates) : OtherApplied(db, updates[k])})
    IN /\ result'.ret >= applied
       /\ result'.ret <= applied + other
       /\ \A k \in 2..Len(updates) :
             (~StatusApplied(db, db', updates[k - 1]) /\ ~OtherApplied(db, updates[k - 1]))
                => (StatusApplied(db, db', updates[k])
                      <=> StatusApplied(db, bulk_update_projects(db, <<updates[k]>>).db,
                                        updates[k]))

C29_BulkUpdateCount ==
    [][\A updates \in BulkInputs :
          (BulkUpdateAdapter(updates) \/ BulkUpdatePostgres(updates))
             => BulkCountExact(updates)]_vars

(***************************************************************************)
(* C30  Review records.  A call of update_project_status for a known       *)
(* project that returns normally writes a review record if and only if a   *)
(* reviewer id is supplied; every stored review record has a status in     *)
(* {approved, rejected, changes_requested} that is the new status of a     *)
(* history entry of the same project and reviewer; and a transition to     *)
(* in_review or submitted made with the id of a known reviewer succeeds    *)
(* and is recorded in the history.                                         *)
(***************************************************************************)
UpdateStatusStep ==
    \/ \E id \in IdInputs, u \in UpdateShapes :
          UpdateStatusDirect(id, u[1], u[2], u[3])
    \/ \E id \in IdTextInputs, u \in UpdateTextShapes :
          UpdateStatusAdapter(id, u[1], u[2], u[3])
    \/ \E c \in PostgresCalls : UpdateStatusPostgres(c[1], c[2], c[3], c[4])

ReviewsMatchHistory(d) ==
    \A k \in 1..Len(d.reviews) :
        /\ d.reviews[k].review_status \in REVIEW_STATUSES
        /\ \E h \in 1..Len(d.history) :
              /\ d.history[h].project_id = d.reviews[k].project_id
              /\ d.history[h].new_status = d.reviews[k].review_status
              /\ d.history[h].changed_by = d.reviews[k].reviewer_id

ReviewIffReviewer ==
    (result'.err = "none" /\ result'.pid \in DOMAIN db.projects)
       => (Len(db'.reviews) = Len(db.reviews) + 1 <=> result'.reviewer # None)

ReviewerMayMoveToInReview ==
    (/\ result'.pid \in DOMAIN db.projects
     /\ result'.new_status \in {"in_review", "submitted"}
     /\ result'.new_status # result'.old
     /\ result'.reviewer \in UserIds(db))
       => /\ result'.err = "none"
          /\ Len(db'.history) = Len(db.history) + 1
          /\ db'.history[Len(db'.history)] =
                HistoryEntry(result'.pid, result'.old, result'.new_status,
                             result'.reviewer, result'.reason)

C30_ReviewRecords ==
    [][/\ ReviewsMatchHistory(db')
       /\ UpdateStatusStep => (ReviewIffReviewer /\ ReviewerMayMoveToInReview)]_vars

====
